---- MODULE Spec2Model ----
(***************************************************************************)
(* Model of bibim's markdown-table engine (src/bibim/index.py), of its    *)
(* pages (src/bibim/page.py, src/bibim/reference.py), of the bibliography  *)
(* table of the command line (src/bibim/__main__.py) and of               *)
(* search_reference (src/bibim/search.py).  Each part is a state machine   *)
(* with its own variables and its own specification; the variables of the  *)
(* other parts stay at their idle values.                                  *)
(*                                                                         *)
(* A string is a sequence of one-character strings.  The file of an Index  *)
(* is a sequence of lines; every line stands for its text followed by      *)
(* "\n".  The file of a page is one string that holds its newlines.        *)
(* The whitespace characters of the model's alphabet are the blank and the *)
(* newline.                                                                *)
(* An optional string (Python's None or a str) is a record                 *)
(* [some |-> BOOLEAN, v |-> string].  A dict keeps its insertion order: it *)
(* is a sequence of entries, and assigning to an existing key replaces the *)
(* value at the key's position.                                            *)
(***************************************************************************)
EXTENDS Integers, Sequences, FiniteSets, TLC

VARIABLES
    pc,             \* "new" before Index.create / Index.load, then "ready"
    template,       \* IndexTemplate: [columns, headers, separator]
    file,           \* the lines of the file at Index.path
    tables,         \* Index.tables, in dict order
    owner,          \* ghost: for each line of file, <<table id, role>>
    nops,           \* number of calls made on the Index so far
    last,           \* ghost: the last call, its arguments and its outcome
    file_before,    \* ghost: the file when the last call started
    tables_before,  \* ghost: Index.tables when the last call started
    inserted,       \* ghost: the values passed to the successful insert_row calls
    pure,           \* ghost: Index.create followed by complete insert_row calls only
    raised,         \* ghost: some call on the Index has raised an exception
    m_titles,       \* matcher run: the candidate titles
    m_query,        \* matcher run: the query
    m_result,       \* matcher run: "pending" or the returned optional title
    page_pc,        \* "new" before create / load of a page, then "ready"
    page_kind,      \* "Page" or "ReferencePage"
    page_template,  \* the template of the page: [keys, entries, layout]
    page_file,      \* the text of the file at page.path
    page_data,      \* Page.data, or the fields of ReferencePage.ref
    page_nops,      \* number of save / update calls made on the page so far
    page_last,      \* ghost: the last call on the page and its outcome
    page_file_before,   \* ghost: the file when the last call started
    page_data_before,   \* ghost: the data or ref when the last call started
    eq_self,        \* comparison run: the Reference on the left of ==
    eq_other,       \* comparison run: the Reference on the right of ==
    eq_result,      \* comparison run: "pending" or the outcome of self == other
    race_template,  \* two writers: the template of both Index objects
    race_file,      \* two writers: the file they share, [lines, owners]
    race_pc,        \* two writers: the position of each one in insert_row
    race_tables,    \* two writers: Index.tables of each one
    race_values,    \* two writers: the values each one inserts
    race_lines_old, \* two writers: lines_old of each one, [lines, owners]
    race_events,    \* ghost: the reads and writes of the file, in order
    bib_file,       \* bibliography: the text of the markdown file
    bib_nops,       \* bibliography: number of commands run so far
    bib_last,       \* ghost: the last command and the lookups it was given
    bib_file_before,    \* ghost: the file when the last command started
    bib_read,       \* ghost: what read_table returned at the head of the last command
    s_input,        \* search run: what the user and the services answer
    s_result        \* search run: "pending" or the outcome of search_reference

vars == <<pc, template, file, tables, owner, nops, last, file_before,
          tables_before, inserted, pure, raised, m_titles, m_query, m_result,
          page_pc, page_kind, page_template, page_file, page_data, page_nops,
          page_last, page_file_before, page_data_before,
          eq_self, eq_other, eq_result,
          race_template, race_file, race_pc, race_tables, race_values,
          race_lines_old, race_events,
          bib_file, bib_nops, bib_last, bib_file_before, bib_read,
          s_input, s_result>>

indexVars == <<pc, template, file, tables, owner, nops, last, file_before,
               tables_before, inserted, pure, raised>>

matcherVars == <<m_titles, m_query, m_result>>

pageVars == <<page_pc, page_kind, page_template, page_file, page_data, page_nops,
              page_last, page_file_before, page_data_before>>

eqVars == <<eq_self, eq_other, eq_result>>

raceVars == <<race_template, race_file, race_pc, race_tables, race_values,
              race_lines_old, race_events>>

bibVars == <<bib_file, bib_nops, bib_last, bib_file_before, bib_read>>

\* the variables of the other state machines of the module
searchVars == <<s_input, s_result>>

\* the variables of the other state machines of the module
otherVars == <<eqVars, raceVars, bibVars, searchVars>>

\* no comparison has been set up
EqIdle ==
    /\ eq_self = <<>>
    /\ eq_other = <<>>
    /\ eq_result = "idle"

\* no writer has been set up
RaceIdle ==
    /\ race_template = <<>>
    /\ race_file = <<>>
    /\ race_pc = <<>>
    /\ race_tables = <<>>
    /\ race_values = <<>>
    /\ race_lines_old = <<>>
    /\ race_events = <<>>

\* no bibliography file has been chosen
BibIdle ==
    /\ bib_file = <<>>
    /\ bib_nops = 0
    /\ bib_last = <<>>
    /\ bib_file_before = <<>>
    /\ bib_read = <<>>

\* no search has been set up
SearchIdle ==
    /\ s_input = <<>>
    /\ s_result = <<>>

OtherIdle == EqIdle /\ RaceIdle /\ BibIdle /\ SearchIdle

----------------------------------------------------------------------------
(* Bounds of the model. *)

MaxOps == 2         \* calls made on one Index object
MaxRows == 3        \* rows of one table

----------------------------------------------------------------------------
(* Python's str operations, on sequences of characters. *)

None == [some |-> FALSE, v |-> <<>>]

Some(s) == [some |-> TRUE, v |-> s]

Min(a, b) == IF a < b THEN a ELSE b

Max(a, b) == IF a > b THEN a ELSE b

UpperCase == <<"A","B","C","D","E","F","G","H","I","J","K","L","M",
               "N","O","P","Q","R","S","T","U","V","W","X","Y","Z">>

LowerCase == <<"a","b","c","d","e","f","g","h","i","j","k","l","m",
               "n","o","p","q","r","s","t","u","v","w","x","y","z">>

Digits == {"0","1","2","3","4","5","6","7","8","9"}

\* c.lower()
LowerChar(c) ==
    IF \E i \in 1..26 : UpperCase[i] = c
    THEN LowerCase[CHOOSE i \in 1..26 : UpperCase[i] = c]
    ELSE c

\* s.lower()
Lower(s) == [i \in 1..Len(s) |-> LowerChar(s[i])]

\* the class \w of re
IsWordChar(c) ==
    \/ \E i \in 1..26 : UpperCase[i] = c \/ LowerCase[i] = c
    \/ c \in Digits
    \/ c = "_"

\* the class \s of re, and the characters that str.strip() removes
IsSpace(c) == c = " " \/ c = "\n"

\* s[i:j] with 0-based i (inclusive) and j (exclusive), as Python clamps them
Slice(s, i, j) ==
    LET lo == Max(i, 0)
        hi == Min(j, Len(s))
    IN IF hi <= lo THEN <<>> ELSE [k \in 1..(hi - lo) |-> s[lo + k]]

\* s.startswith(p) at 1-based position i
MatchAt(s, p, i) ==
    /\ i >= 1
    /\ i + Len(p) - 1 <= Len(s)
    /\ \A k \in 1..Len(p) : s[i + k - 1] = p[k]

\* p in s
Contains(s, p) == \E i \in 1..(Len(s) + 1) : MatchAt(s, p, i)

\* s.strip()
Strip(s) ==
    IF \A i \in 1..Len(s) : IsSpace(s[i]) THEN <<>>
    ELSE LET a == CHOOSE i \in 1..Len(s) :
                    ~IsSpace(s[i]) /\ \A j \in 1..(i - 1) : IsSpace(s[j])
             b == CHOOSE i \in 1..Len(s) :
                    ~IsSpace(s[i]) /\ \A j \in (i + 1)..Len(s) : IsSpace(s[j])
         IN Slice(s, a - 1, b)

\* s.strip(ch)
StripChar(s, ch) ==
    IF \A i \in 1..Len(s) : s[i] = ch THEN <<>>
    ELSE LET a == CHOOSE i \in 1..Len(s) :
                    s[i] # ch /\ \A j \in 1..(i - 1) : s[j] = ch
             b == CHOOSE i \in 1..Len(s) :
                    s[i] # ch /\ \A j \in (i + 1)..Len(s) : s[j] = ch
         IN Slice(s, a - 1, b)

\* re.sub(r'\s+', '', s)
RECURSIVE RemoveSpace(_)
RemoveSpace(s) ==
    IF s = <<>> THEN <<>>
    ELSE IF IsSpace(Head(s)) THEN RemoveSpace(Tail(s))
    ELSE <<Head(s)>> \o RemoveSpace(Tail(s))

\* s.split(ch)
RECURSIVE Split(_, _)
Split(s, ch) ==
    IF \A i \in 1..Len(s) : s[i] # ch THEN <<s>>
    ELSE LET p == CHOOSE i \in 1..Len(s) :
                    s[i] = ch /\ \A j \in 1..(i - 1) : s[j] # ch
         IN <<Slice(s, 0, p - 1)>> \o Split(Slice(s, p, Len(s)), ch)

\* sep.join(parts)
RECURSIVE Join(_, _)
Join(parts, sep) ==
    IF parts = <<>> THEN <<>>
    ELSE IF Len(parts) = 1 THEN parts[1]
    ELSE parts[1] \o sep \o Join(Tail(parts), sep)

\* ch * n
Repeat(ch, n) == [i \in 1..n |-> ch]

\* s.ljust(w)
Ljust(s, w) == IF Len(s) >= w THEN s ELSE s \o Repeat(" ", w - Len(s))

\* s.replace('|', '\\|')
RECURSIVE EscapePipes(_)
EscapePipes(s) ==
    IF s = <<>> THEN <<>>
    ELSE IF Head(s) = "|" THEN <<"\\", "|">> \o EscapePipes(Tail(s))
    ELSE <<Head(s)>> \o EscapePipes(Tail(s))

\* set(re.findall(r'\w+', s)): the maximal runs of word characters of s
WordSet(s) ==
    LET starts == { a \in 1..Len(s) :
                      IsWordChar(s[a]) /\ (a = 1 \/ ~IsWordChar(s[a - 1])) }
        stop(a) == CHOOSE b \in a..Len(s) :
                      /\ \A k \in a..b : IsWordChar(s[k])
                      /\ (b = Len(s) \/ ~IsWordChar(s[b + 1]))
    IN { Slice(s, a - 1, stop(a)) : a \in starts }

----------------------------------------------------------------------------
(* find_best_matching_table, extract_between, strip_markdown_link. *)

\* The optional index of the first i such that P holds of titles[i]: the
\* loops of find_best_matching_table return at the first success.
NoIndex == 0

\* lines 12-14: the first title equal to the query ignoring case.  The loop
\* calls title.lower() on each title it visits: a title that is None raises
\* AttributeError (index -1) unless an earlier title has already matched.
RECURSIVE ExactLoop(_, _, _)
ExactLoop(table_titles, query_lower, i) ==
    IF i > Len(table_titles) THEN NoIndex
    ELSE IF ~table_titles[i].some THEN -1
    ELSE IF Lower(table_titles[i].v) = query_lower THEN i
    ELSE ExactLoop(table_titles, query_lower, i + 1)

\* lines 17-21: the first title that contains the query or is contained in it
RECURSIVE SubstringLoop(_, _, _)
SubstringLoop(table_titles, query_lower, i) ==
    IF i > Len(table_titles) THEN NoIndex
    ELSE IF Contains(Lower(table_titles[i].v), query_lower) THEN i
    ELSE IF Contains(query_lower, Lower(table_titles[i].v)) THEN i
    ELSE SubstringLoop(table_titles, query_lower, i + 1)

\* a mutant of JaccardLoop: a later title of equal similarity replaces the best
RECURSIVE JaccardLoopLastTie(_, _, _, _, _, _)
JaccardLoopLastTie(table_titles, query_words, i, max_num, max_den, best_match) ==
    IF i > Len(table_titles) THEN
        IF 2 * max_num >= max_den THEN best_match ELSE NoIndex
    ELSE
        LET title_words == WordSet(Lower(table_titles[i].v))
            intersection == query_words \cap title_words
            union == query_words \cup title_words
        IN IF union = {} THEN
               JaccardLoopLastTie(table_titles, query_words, i + 1,
                                  max_num, max_den, best_match)
           ELSE IF Cardinality(intersection) * max_den
                       >= max_num * Cardinality(union) THEN
               JaccardLoopLastTie(table_titles, query_words, i + 1,
                                  Cardinality(intersection), Cardinality(union), i)
           ELSE
               JaccardLoopLastTie(table_titles, query_words, i + 1,
                                  max_num, max_den, best_match)

\* lines 24-48: the title of maximum Jaccard similarity, kept as the fraction
\* max_num / max_den (similarity = len(intersection) / len(union)); the
\* result is best_match when max_similarity >= 0.5 and None otherwise
RECURSIVE JaccardLoop(_, _, _, _, _, _)
JaccardLoop(table_titles, query_words, i, max_num, max_den, best_match) ==
    IF i > Len(table_titles) THEN
        IF 2 * max_num >= max_den THEN best_match ELSE NoIndex
    ELSE
        LET title_words == WordSet(Lower(table_titles[i].v))
            intersection == query_words \cap title_words
            union == query_words \cup title_words
        IN IF union = {} THEN
               JaccardLoop(table_titles, query_words, i + 1,
                           max_num, max_den, best_match)
           ELSE IF Cardinality(intersection) * max_den
                       > max_num * Cardinality(union) THEN
               JaccardLoop(table_titles, query_words, i + 1,
                           Cardinality(intersection), Cardinality(union), i)
           ELSE
               JaccardLoop(table_titles, query_words, i + 1,
                           max_num, max_den, best_match)

\* find_best_matching_table(table_titles, query): [exc, title] where exc is
\* "" for a normal return and title is the returned optional title
find_best_matching_table(table_titles, query) ==
    LET query_lower == Lower(query)
        query_words == WordSet(query_lower)
        e == ExactLoop(table_titles, query_lower, 1)
        s == SubstringLoop(table_titles, query_lower, 1)
        j == JaccardLoop(table_titles, query_words, 1, 0, 1, NoIndex)
    IN IF e = -1 THEN [exc |-> "AttributeError", title |-> None]
       ELSE IF e # NoIndex THEN [exc |-> "", title |-> table_titles[e]]
       ELSE IF s # NoIndex THEN [exc |-> "", title |-> table_titles[s]]
       ELSE IF j # NoIndex THEN [exc |-> "", title |-> table_titles[j]]
       ELSE [exc |-> "", title |-> None]

\* extract_between(text, prefix, suffix): the leftmost match of
\* re.escape(prefix) + '(.+?)' + re.escape(suffix), whose group is the
\* shortest non-empty text after the prefix that the suffix follows; the
\* '.' of the group does not match a newline
extract_between(text, prefix, suffix) ==
    LET ends(i) == { k \in 1..Len(text) :
                      /\ i + Len(prefix) + k - 1 <= Len(text)
                      /\ \A m \in 0..(k - 1) : text[i + Len(prefix) + m] # "\n"
                      /\ MatchAt(text, suffix, i + Len(prefix) + k) }
        starts == { i \in 1..Len(text) :
                      MatchAt(text, prefix, i) /\ ends(i) # {} }
    IN IF starts = {} THEN None
       ELSE LET i == CHOOSE x \in starts : \A y \in starts : x <= y
                p == i + Len(prefix)
                k == CHOOSE x \in ends(i) : \A y \in ends(i) : x <= y
            IN Some(Slice(text, p - 1, p - 1 + k))

\* the first index j > i with text[j] = ch, or 0
FirstAfter(text, ch, i) ==
    IF \E j \in (i + 1)..Len(text) : text[j] = ch
    THEN CHOOSE j \in (i + 1)..Len(text) :
           text[j] = ch /\ \A m \in (i + 1)..(j - 1) : text[m] # ch
    ELSE 0

\* re.search(r'\[([^\]]+)\]\([^\)]+\)', text) succeeds from position i:
\* '[', one or more characters up to the next ']', '(', one or more
\* characters up to the next ')'
LinkAt(text, i) ==
    /\ text[i] = "["
    /\ LET j == FirstAfter(text, "]", i)
       IN /\ j > i + 1
          /\ j + 1 <= Len(text)
          /\ text[j + 1] = "("
          /\ FirstAfter(text, ")", j + 1) > j + 2

\* strip_markdown_link(text)
strip_markdown_link(text) ==
    IF \E i \in 1..Len(text) : LinkAt(text, i)
    THEN LET i == CHOOSE x \in 1..Len(text) :
                    LinkAt(text, x) /\ \A y \in 1..(x - 1) : ~LinkAt(text, y)
         IN Slice(text, i, FirstAfter(text, "]", i) - 1)
    ELSE text

----------------------------------------------------------------------------
(* IndexTemplate, Table, Row and the rendering of table lines. *)

\* Table(start_line, end_line) with its rows; key is the key under which
\* Index.tables holds it, and id is a ghost: the identity of the table in
\* the document, read from the owner of its header line.
Table(key, start_line, end_line, rows, id) ==
    [key |-> key, start_line |-> start_line, end_line |-> end_line,
     rows |-> rows, id |-> id]

\* list(self.tables.keys())
Keys(tbls) == [k \in 1..Len(tbls) |-> tbls[k].key]

\* self.tables[key] = table
DictSet(tbls, key, table) ==
    IF \E k \in 1..Len(tbls) : tbls[k].key = key
    THEN [tbls EXCEPT ![CHOOSE k \in 1..Len(tbls) : tbls[k].key = key] = table]
    ELSE Append(tbls, table)

\* header_widths before any row is measured: the length of each header
HeaderWidths(tpl) ==
    [c \in { tpl.columns[k] : k \in 1..Len(tpl.columns) } |-> Len(tpl.headers[c])]

\* '| ' + ' | '.join(cells) + ' |'
PipeRow(cells) == <<"|", " ">> \o Join(cells, <<" ", "|", " ">>) \o <<" ", "|">>

\* the header line of _write_table
HeaderLine(tpl, widths) ==
    PipeRow([k \in 1..Len(tpl.columns) |->
                Ljust(tpl.headers[tpl.columns[k]], widths[tpl.columns[k]])])

\* the separator line of create and of _write_table
SeparatorLine(tpl, widths) ==
    <<"|">> \o Join([k \in 1..Len(tpl.columns) |->
                        Repeat("-", widths[tpl.columns[k]] + 2)], <<"|">>)
          \o <<"|">>

\* a data line of _write_table
RowLine(tpl, widths, entry) ==
    PipeRow([k \in 1..Len(tpl.columns) |->
                Ljust(EscapePipes(entry[tpl.columns[k]]), widths[tpl.columns[k]])])

\* row.entry['reference'] = f"[{...}]({...})" when the entry has the key
Linkify(entry) ==
    IF "reference" \in DOMAIN entry
    THEN [entry EXCEPT !["reference"] =
            <<"[">> \o entry["reference"] \o <<"]", "(">>
                    \o entry["reference"] \o <<")">>]
    ELSE entry

\* the widths after the loop over the rows: max(header, every row's value)
RECURSIVE RowWidths(_, _, _)
RowWidths(tpl, rows, widths) ==
    IF rows = <<>> THEN widths
    ELSE RowWidths(tpl, Tail(rows),
            [c \in DOMAIN widths |->
                IF c \in DOMAIN Head(rows)
                THEN Max(widths[c], Len(Head(rows)[c])) ELSE widths[c]])

\* row.entry[c] raises KeyError for some column c of the template
LacksColumn(tpl, entry) ==
    \E k \in 1..Len(tpl.columns) : tpl.columns[k] \notin DOMAIN entry

----------------------------------------------------------------------------
(* Index.load. *)

\* the signature of the header line
TableSignature(tpl) ==
    LET _headers == [k \in 1..Len(tpl.columns) |-> tpl.headers[tpl.columns[k]]]
    IN RemoveSpace(<<"|">> \o Join(_headers, <<"|">>) \o <<"|">>)

\* the inner while loop: the 0-based index of the first line at or after i
\* that does not start with '|' once stripped
RECURSIVE ScanEnd(_, _)
ScanEnd(lines, i) ==
    IF i < Len(lines) /\ MatchAt(Strip(lines[i + 1]), <<"|">>, 1)
    THEN ScanEnd(lines, i + 1)
    ELSE i

\* dict(zip(template.columns, values)) for the cells of one data line
ParseRow(tpl, line) ==
    LET cells == Split(StripChar(Strip(line), "|"), "|")
        values == [k \in 1..Len(cells) |-> strip_markdown_link(Strip(cells[k]))]
        n == Min(Len(tpl.columns), Len(values))
    IN [c \in { tpl.columns[k] : k \in 1..n } |->
            values[CHOOSE k \in 1..n : tpl.columns[k] = c]]

\* the outer while loop of load, from the 0-based line index i
RECURSIVE LoadLoop(_, _, _, _, _, _)
LoadLoop(lines, own, tpl, i, table_title, tbls) ==
    IF i >= Len(lines) THEN tbls
    ELSE
        LET line == lines[i + 1]
            found == extract_between(line, tpl.separator[1], tpl.separator[2])
            title == IF found.some /\ found.v # <<>> THEN found ELSE table_title
        IN IF TableSignature(tpl) # RemoveSpace(line)
           THEN LoadLoop(lines, own, tpl, i + 1, title, tbls)
           ELSE
               LET table_start == i + 2
                   table_end == ScanEnd(lines, i + 1)
                   id == own[i + 1][1]
                   rows == [r \in 1..(table_end - table_start) |->
                               ParseRow(tpl, lines[table_start + r])]
               IN IF table_end <= table_start
                  THEN LoadLoop(lines, own, tpl, table_end, title,
                           DictSet(tbls, title,
                               Table(title, table_start, table_start, <<>>, id)))
                  ELSE LoadLoop(lines, own, tpl, table_end, title,
                           DictSet(tbls, title,
                               Table(title, table_start, table_end, rows, id)))

\* Index.load(path, template).tables for a file holding lines
load(lines, own, tpl) == LoadLoop(lines, own, tpl, 0, None, <<>>)

----------------------------------------------------------------------------
(* Index._write_table, insert_row, update_row, format. *)

\* lines_old[:table.start_line - 2] + lines + lines_old[table.end_line:]
Splice(lines_old, lines, table) ==
    Slice(lines_old, 0, table.start_line - 2)
        \o lines \o Slice(lines_old, table.end_line, Len(lines_old))

\* a mutant of ShiftTables: the later tables are moved by the delta in the
\* wrong direction
ShiftTablesBack(tbls, k, end_line_new, delta) ==
    [j \in 1..Len(tbls) |->
        IF j = k THEN [tbls[j] EXCEPT !.end_line = end_line_new]
        ELSE IF tbls[j].start_line > tbls[k].start_line
        THEN [tbls[j] EXCEPT !.start_line = @ - delta, !.end_line = @ - delta]
        ELSE tbls[j]]

\* a mutant of ShiftTables: every other table is shifted, also the earlier ones
ShiftTablesAll(tbls, k, end_line_new, delta) ==
    [j \in 1..Len(tbls) |->
        IF j = k THEN [tbls[j] EXCEPT !.end_line = end_line_new]
        ELSE [tbls[j] EXCEPT !.start_line = @ + delta, !.end_line = @ + delta]]

\* table.end_line = end_line_new, then the loop that shifts every table
\* whose start_line is greater than the written table's
ShiftTables(tbls, k, end_line_new, delta) ==
    [j \in 1..Len(tbls) |->
        IF j = k THEN [tbls[j] EXCEPT !.end_line = end_line_new]
        ELSE IF tbls[j].start_line > tbls[k].start_line
        THEN [tbls[j] EXCEPT !.start_line = @ + delta, !.end_line = @ + delta]
        ELSE tbls[j]]

\* a mutant of FileOnKeyError: the file is opened for writing before the
\* rows are rendered, so a KeyError leaves it truncated
FileOnKeyErrorTruncated(lines_old) == <<>>

\* the file when rendering raises KeyError: open(self.path, 'w') comes after
\* the rendering loops, so the file has not been touched
FileOnKeyError(lines_old) == lines_old

\* _write_table(table_name) for the table at position k of self.tables:
\* [exc, tables, file, owner]
write_table(tbls, f, own, tpl, k) ==
    LET table == tbls[k]
        nrows == Len(table.rows)
        bad == { r \in 1..nrows : LacksColumn(tpl, table.rows[r]) }
    IN IF bad # {} THEN
           \* the first loop raises KeyError at the first row that lacks a
           \* column; the rows up to it have been linkified in place
           LET r0 == CHOOSE r \in bad : \A q \in bad : r <= q
               rows1 == [r \in 1..nrows |->
                           IF r <= r0 THEN Linkify(table.rows[r]) ELSE table.rows[r]]
               kept == FileOnKeyError(f)
           IN [exc |-> "KeyError",
               tables |-> [tbls EXCEPT ![k].rows = rows1],
               file |-> kept,
               owner |-> Slice(own, 0, Len(kept))]
       ELSE
           LET rows1 == [r \in 1..nrows |-> Linkify(table.rows[r])]
               widths == RowWidths(tpl, rows1, HeaderWidths(tpl))
               lines == <<HeaderLine(tpl, widths), SeparatorLine(tpl, widths)>>
                           \o [r \in 1..nrows |-> RowLine(tpl, widths, rows1[r])]
               tags == <<<<table.id, "hdr">>, <<table.id, "sep">>>>
                           \o [r \in 1..nrows |-> <<table.id, "row">>]
               end_line_new == table.start_line + nrows
               delta == end_line_new - table.end_line
           IN [exc |-> "",
               tables |-> ShiftTables([tbls EXCEPT ![k].rows = rows1],
                                      k, end_line_new, delta),
               file |-> Splice(f, lines, table),
               owner |-> Splice(own, tags, table)]

\* the resolution of table_name at the head of update_row and insert_row:
\* [exc, k] where k is the position of the table in self.tables, 0 for None
ResolveTable(tbls, table_name) ==
    IF ~table_name.some \/ table_name.v = <<>> THEN
        \* table_name = list(self.tables.keys())[0]; a first table without a
        \* title has the key None, which the test "table_name is None" rejects
        IF tbls = <<>> THEN [exc |-> "IndexError", k |-> 0]
        ELSE IF ~tbls[1].key.some THEN [exc |-> "", k |-> 0]
        ELSE [exc |-> "", k |-> 1]
    ELSE
        LET m == find_best_matching_table(Keys(tbls), table_name.v)
        IN IF m.exc # "" THEN [exc |-> m.exc, k |-> 0]
           ELSE IF ~m.title.some THEN [exc |-> "", k |-> 0]
           ELSE [exc |-> "",
                 k |-> CHOOSE j \in 1..Len(tbls) : tbls[j].key = m.title]

\* a mutant of IdxOutOfRange: a negative idx is let through
IdxOutOfRangeNoLower(idx, rows) == idx >= Len(rows)

\* idx < 0 or idx >= len(table.rows)
IdxOutOfRange(idx, rows) == idx < 0 \/ idx >= Len(rows)

\* rows[idx].entry = values, with Python's indexing of a list
SetRow(rows, idx, values) ==
    [rows EXCEPT ![IF idx < 0 THEN Len(rows) + idx + 1 ELSE idx + 1] = values]

\* the outcome of a call that stops before _write_table
Unchanged(ret, tbls, f, own) ==
    [ret |-> ret, tables |-> tbls, file |-> f, owner |-> own]

\* the outcome of a call that ends with _write_table
Written(w) ==
    [ret |-> IF w.exc = "" THEN "True" ELSE w.exc,
     tables |-> w.tables, file |-> w.file, owner |-> w.owner]

\* update_row(idx, values, table_name): [ret, tables, file, owner]
update_row(tbls, f, own, tpl, idx, values, table_name) ==
    LET r == ResolveTable(tbls, table_name)
    IN IF r.exc # "" THEN Unchanged(r.exc, tbls, f, own)
       ELSE IF r.k = 0 THEN Unchanged("False", tbls, f, own)
       ELSE IF IdxOutOfRange(idx, tbls[r.k].rows) THEN Unchanged("False", tbls, f, own)
       ELSE Written(write_table(
                [tbls EXCEPT ![r.k].rows = SetRow(@, idx, values)], f, own, tpl, r.k))

\* insert_row(values, table_name): [ret, tables, file, owner]
insert_row(tbls, f, own, tpl, values, table_name) ==
    LET r == ResolveTable(tbls, table_name)
    IN IF r.exc # "" THEN Unchanged(r.exc, tbls, f, own)
       ELSE IF r.k = 0 THEN Unchanged("False", tbls, f, own)
       ELSE Written(write_table(
                [tbls EXCEPT ![r.k].rows = Append(@, values)], f, own, tpl, r.k))

\* format(): _write_table for every table in dict order; an exception ends
\* the loop.  [ret, tables, file, owner], ret "None" for a normal return
RECURSIVE FormatLoop(_, _, _, _, _)
FormatLoop(tbls, f, own, tpl, k) ==
    IF k > Len(tbls) THEN Unchanged("None", tbls, f, own)
    ELSE LET w == write_table(tbls, f, own, tpl, k)
         IN IF w.exc # "" THEN Unchanged(w.exc, w.tables, w.file, w.owner)
            ELSE FormatLoop(w.tables, w.file, w.owner, tpl, k + 1)

format(tbls, f, own, tpl) == FormatLoop(tbls, f, own, tpl, 1)

----------------------------------------------------------------------------
(* Templates, documents and arguments of the model. *)

Marker == <<<<"#">>, <<"#">>>>

\* one column
TplT == [columns |-> <<"title">>,
         headers |-> [title |-> <<"T">>],
         separator |-> Marker]

\* two columns, the second keyed 'reference'
TplTR == [columns |-> <<"title", "reference">>,
          headers |-> [title |-> <<"T">>, reference |-> <<"R">>],
          separator |-> Marker]

\* one column, under a markdown heading: the marker has an empty suffix
TplHeading == [columns |-> <<"title">>,
               headers |-> [title |-> <<"T">>],
               separator |-> <<<<"#", "#", " ">>, <<>>>>]

Templates == {TplT, TplTR, TplHeading}

Other == <<0, "other">>

\* the tags of a table of n data rows with its header and separator lines
Block(id, n) == <<<<id, "hdr">>, <<id, "sep">>>> \o [r \in 1..n |-> <<id, "row">>]

\* two tables, the second one written without padding
DocTwo ==
    [tpl |-> TplT,
     lines |-> << <<"#","A","#">>,
                  <<"|"," ","T"," ","|">>,
                  <<"|","-","-","-","|">>,
                  <<"|"," ","x"," ","|">>,
                  <<>>,
                  <<"#","B","#">>,
                  <<"|","T","|">>,
                  <<"|","-","|">>,
                  <<"|","y","|">>,
                  <<"|","a","|">>,
                  <<"e","n","d">> >>,
     owners |-> <<Other>> \o Block(1, 1) \o <<Other, Other>> \o Block(2, 2) \o <<Other>>]

\* two tables with a 'reference' column
DocTwoRef ==
    [tpl |-> TplTR,
     lines |-> << <<"#","A","#">>,
                  <<"|"," ","T"," ","|"," ","R"," "," "," "," "," "," ","|">>,
                  <<"|","-","-","-","|","-","-","-","-","-","-","-","-","|">>,
                  <<"|"," ","x"," ","|"," ","[","p","]","(","p",")"," ","|">>,
                  <<"t","e","x","t">>,
                  <<"#","B","#">>,
                  <<"|"," ","T"," ","|"," ","R"," ","|">>,
                  <<"|","-","-","-","|","-","-","-","|">>,
                  <<"|"," ","y"," ","|"," ","q"," ","|">> >>,
     owners |-> <<Other>> \o Block(1, 1) \o <<Other, Other>> \o Block(2, 1)]

\* two header lines that no separator line follows
DocNoSep ==
    [tpl |-> TplT,
     lines |-> << <<"#","A","#">>,
                  <<"|"," ","T"," ","|">>,
                  <<"t","e","x","t">>,
                  <<"#","B","#">>,
                  <<"|"," ","T"," ","|">> >>,
     owners |-> <<Other, <<1, "hdr">>, Other, Other, <<2, "hdr">>>>]

\* no table
DocNone ==
    [tpl |-> TplT,
     lines |-> << <<"h","e","l","l","o">> >>,
     owners |-> <<Other>>]

\* a table that no section header precedes
DocNoMarker ==
    [tpl |-> TplT,
     lines |-> << <<"|"," ","T"," ","|">>,
                  <<"|","-","-","-","|">>,
                  <<"|"," ","x"," ","|">>,
                  <<"e","n","d">> >>,
     owners |-> Block(1, 1) \o <<Other>>]

\* a data row with fewer cells than the template has columns
DocShort ==
    [tpl |-> TplTR,
     lines |-> << <<"#","A","#">>,
                  <<"|"," ","T"," ","|"," ","R"," ","|">>,
                  <<"|","-","-","-","|","-","-","-","|">>,
                  <<"|"," ","x"," ","|">> >>,
     owners |-> <<Other>> \o Block(1, 1)]

\* a cell that holds text before a link, and a plain 'reference' cell
DocLinkInside ==
    [tpl |-> TplTR,
     lines |-> << <<"#","A","#">>,
                  <<"|"," ","T"," ","|"," ","R"," ","|">>,
                  <<"|","-","-","-","|","-","-","-","|">>,
                  <<"|"," ","x","[","a","]","(","b",")"," ","|"," ","q"," ","|">> >>,
     owners |-> <<Other>> \o Block(1, 1)]

\* two tables under one section header
DocSameMarker ==
    [tpl |-> TplT,
     lines |-> << <<"#","A","#">>,
                  <<"|"," ","T"," ","|">>,
                  <<"|","-","-","-","|">>,
                  <<"|"," ","x"," ","|">>,
                  <<>>,
                  <<"|"," ","T"," ","|">>,
                  <<"|","-","-","-","|">>,
                  <<"|"," ","y"," ","|">> >>,
     owners |-> <<Other>> \o Block(1, 1) \o <<Other>> \o Block(2, 1)]

Documents == {DocTwo, DocTwoRef, DocNoSep, DocNone, DocNoMarker, DocShort,
              DocLinkInside, DocSameMarker}

\* the values mappings given to insert_row and update_row: two that give a
\* value for every column and one that lacks a column
InputValues(tpl) ==
    IF Len(tpl.columns) = 1
    THEN { [title |-> <<"x">>],
           [title |-> <<"a","|","b">>],
           [note |-> <<"x">>] }
    ELSE { [title |-> <<"x">>, reference |-> <<"p">>],
           [title |-> <<"a","|","b">>, reference |-> <<"p">>],
           [title |-> <<"x">>] }

\* the table_name arguments: omitted, matching table B, matching no table
InputNames == {None, Some(<<"b">>), Some(<<"z">>)}

InputIdx == -1..MaxRows

\* the record of a call: its arguments, its outcome ret, the position k of the
\* table it resolved (0 for none), and the previous call's op, ret and k
CallRecord(op, name, idx, values, ret, k, prev) ==
    [op |-> op, name |-> name, idx |-> idx, values |-> values, ret |-> ret,
     k |-> k, prev_op |-> prev.op, prev_ret |-> prev.ret, prev_k |-> prev.k]

NoValues == [none |-> <<>>]

NoCall == CallRecord("none", None, 0, NoValues, "", 0, [op |-> "none", ret |-> "", k |-> 0])

----------------------------------------------------------------------------
(* Index.create. *)

\* the three lines written by create
CreateLines(tpl) ==
    LET headers == [k \in 1..Len(tpl.columns) |-> tpl.headers[tpl.columns[k]]]
    IN << tpl.separator[1] \o <<"I","n","d","e","x">> \o tpl.separator[2],
          PipeRow(headers),
          SeparatorLine(tpl, HeaderWidths(tpl)) >>

----------------------------------------------------------------------------
(* Page (src/bibim/page.py) and ReferencePage (src/bibim/reference.py).    *)
(* The file of a page is one string with its newlines: save and update     *)
(* write lines that do not end with a newline.  Page.data and the fields   *)
(* of a Reference are a mapping from the field keys to optional strings.   *)

\* f.readlines(): the lines of the file, each one with its newline
RECURSIVE ReadLines(_)
ReadLines(s) ==
    IF s = <<>> THEN <<>>
    ELSE IF \A i \in 1..Len(s) : s[i] # "\n" THEN <<s>>
    ELSE LET p == CHOOSE i \in 1..Len(s) :
                    s[i] = "\n" /\ \A j \in 1..(i - 1) : s[j] # "\n"
         IN <<Slice(s, 0, p)>> \o ReadLines(Slice(s, p, Len(s)))

\* the backquote character, which a TLA+ string cannot hold: the model
\* writes it as a tilde, a character that occurs nowhere else
Backquote == "~"

FenceOpen == <<Backquote, Backquote, Backquote, "b","i","b","t","e","x">>

Fence == <<Backquote, Backquote, Backquote>>

\* the fields of a Reference that the model follows; author, venue, url and
\* num_citations are plain fields like title and year
Fields == {"title", "year", "bibtex", "bibtex_condensed"}

\* Page.data = {}, and Reference() with every field None
NoData == [k \in Fields |-> None]

\* a mutant of NotSaved: a key that has been consumed is tried again
NotSavedNever(key, saved) == TRUE

\* key not in saved (save, update), key not in data (load)
NotSaved(key, saved) == key \notin saved

\* the loop over template.entries for one line: the position of the first
\* key that is not consumed and whose marker the line matches, or 0
MatchingKey(tpl, line, saved) ==
    LET hits == { k \in 1..Len(tpl.keys) :
                    /\ NotSaved(tpl.keys[k], saved)
                    /\ extract_between(line, tpl.entries[tpl.keys[k]][1],
                                       tpl.entries[tpl.keys[k]][2]).some }
    IN IF hits = {} THEN 0 ELSE CHOOSE k \in hits : \A j \in hits : k <= j

\* the value that the marker of key extracts from line
Extract(tpl, line, key) ==
    extract_between(line, tpl.entries[key][1], tpl.entries[key][2])

\* prefix + value + suffix
Wrap(tpl, key, value) == tpl.entries[key][1] \o value \o tpl.entries[key][2]

\* the keys of data that hold a value
Present(data) == { k \in Fields : data[k].some }

\* the loop of Page.load
RECURSIVE PageLoadLoop(_, _, _, _)
PageLoadLoop(lines, tpl, i, data) ==
    IF i > Len(lines) THEN data
    ELSE LET k == MatchingKey(tpl, lines[i], Present(data))
         IN IF k = 0 THEN PageLoadLoop(lines, tpl, i + 1, data)
            ELSE PageLoadLoop(lines, tpl, i + 1,
                    [data EXCEPT ![tpl.keys[k]] = Extract(tpl, lines[i], tpl.keys[k])])

\* Page.load(path, template).data
page_load(f, tpl) == PageLoadLoop(ReadLines(f), tpl, 1, NoData)

\* the outcome of save and update: exc is "" for a normal return, file is the
\* file afterwards, and replaced tells for each line read what became of it:
\* the key that replaced it, "" for a line written back, or "open", "inside",
\* "close" for the lines of a fenced block
Outcome(exc, f, replaced) == [exc |-> exc, file |-> f, replaced |-> replaced]

\* the loop of Page.save; the file is written after the loop
RECURSIVE PageSaveLoop(_, _, _, _, _, _, _, _)
PageSaveLoop(f, lines, tpl, data, i, saved, new_lines, replaced) ==
    IF i > Len(lines) THEN Outcome("", Join(new_lines, <<>>), replaced)
    ELSE LET k == MatchingKey(tpl, lines[i], saved)
             key == tpl.keys[k]
         IN IF k = 0 THEN
                PageSaveLoop(f, lines, tpl, data, i + 1, saved,
                             Append(new_lines, lines[i]), Append(replaced, ""))
            ELSE IF ~data[key].some THEN Outcome("KeyError", f, replaced)
            ELSE PageSaveLoop(f, lines, tpl, data, i + 1, saved \cup {key},
                              Append(new_lines, Wrap(tpl, key, data[key].v)),
                              Append(replaced, key))

\* Page.save()
page_save(f, tpl, data) == PageSaveLoop(f, ReadLines(f), tpl, data, 1, {}, <<>>, <<>>)

\* the loop of ReferencePage.load: [entries, bibtext]
RECURSIVE RefLoadLoop(_, _, _, _, _, _, _)
RefLoadLoop(lines, tpl, i, parsing_bibtex, bibtex_lines, bibtext, entries) ==
    IF i > Len(lines) THEN [entries |-> entries, bibtext |-> bibtext]
    ELSE LET line == lines[i]
             k == MatchingKey(tpl, line, Present(entries))
         IN IF MatchAt(line, FenceOpen, 1) /\ ~parsing_bibtex THEN
                RefLoadLoop(lines, tpl, i + 1, TRUE, <<>>, bibtext, entries)
            ELSE IF MatchAt(line, Fence, 1) /\ parsing_bibtex THEN
                RefLoadLoop(lines, tpl, i + 1, FALSE, bibtex_lines,
                            Append(bibtext, Strip(Join(bibtex_lines, <<>>))), entries)
            ELSE IF parsing_bibtex THEN
                RefLoadLoop(lines, tpl, i + 1, TRUE, Append(bibtex_lines, line),
                            bibtext, entries)
            ELSE IF k = 0 THEN
                RefLoadLoop(lines, tpl, i + 1, FALSE, bibtex_lines, bibtext, entries)
            ELSE
                RefLoadLoop(lines, tpl, i + 1, FALSE, bibtex_lines, bibtext,
                    [entries EXCEPT ![tpl.keys[k]] = Extract(tpl, line, tpl.keys[k])])

\* ReferencePage.load(path, template).ref: one block goes to bibtex; of two
\* or more blocks the second goes to bibtex_condensed and bibtex is not set
ref_load(f, tpl) ==
    LET r == RefLoadLoop(ReadLines(f), tpl, 1, FALSE, <<>>, <<>>, NoData)
    IN IF Len(r.bibtext) = 1
       THEN [r.entries EXCEPT !["bibtex"] = Some(r.bibtext[1])]
       ELSE IF Len(r.bibtext) > 1
       THEN [r.entries EXCEPT !["bibtex_condensed"] = Some(r.bibtext[2])]
       ELSE r.entries

\* the loop of ReferencePage.update; the file is written after the loop
RECURSIVE RefUpdateLoop(_, _, _, _, _, _, _, _, _, _)
RefUpdateLoop(f, lines, tpl, ref, i, parsing_bibtex, bibtex_count, saved, new_lines, replaced) ==
    IF i > Len(lines) THEN Outcome("", Join(new_lines, <<>>), replaced)
    ELSE LET line == lines[i]
             k == MatchingKey(tpl, line, saved)
             key == tpl.keys[k]
             block == IF bibtex_count = 0 THEN ref["bibtex"]
                      ELSE ref["bibtex_condensed"]
         IN IF MatchAt(line, FenceOpen, 1) /\ ~parsing_bibtex THEN
                RefUpdateLoop(f, lines, tpl, ref, i + 1, TRUE, bibtex_count, saved,
                              Append(new_lines, line), Append(replaced, "open"))
            ELSE IF MatchAt(line, Fence, 1) /\ parsing_bibtex THEN
                IF ~block.some THEN Outcome("AttributeError", f, replaced)
                ELSE RefUpdateLoop(f, lines, tpl, ref, i + 1, FALSE,
                                   bibtex_count + 1, saved,
                                   new_lines \o << Strip(block.v) \o <<"\n">>,
                                                   line \o <<"\n">> >>,
                                   Append(replaced, "close"))
            ELSE IF parsing_bibtex THEN
                RefUpdateLoop(f, lines, tpl, ref, i + 1, TRUE, bibtex_count, saved,
                              new_lines, Append(replaced, "inside"))
            ELSE IF k = 0 THEN
                RefUpdateLoop(f, lines, tpl, ref, i + 1, FALSE, bibtex_count, saved,
                              Append(new_lines, line), Append(replaced, ""))
            ELSE IF ~ref[key].some THEN Outcome("TypeError", f, replaced)
            ELSE RefUpdateLoop(f, lines, tpl, ref, i + 1, FALSE, bibtex_count,
                               saved \cup {key},
                               Append(new_lines, Wrap(tpl, key, ref[key].v)),
                               Append(replaced, key))

\* ReferencePage.update(ref)
ref_update(f, tpl, ref) ==
    RefUpdateLoop(f, ReadLines(f), tpl, ref, 1, FALSE, 0, {}, <<>>, <<>>)

\* a part of a layout: the replacement field {key}, or literal text
Field(key) == [key |-> key, lit |-> <<>>]

Lit(text) == [key |-> "", lit |-> text]

\* layout.format_map(res): [exc, text]
RECURSIVE format_map(_, _)
format_map(layout, res) ==
    IF layout = <<>> THEN [exc |-> "", text |-> <<>>]
    ELSE LET part == Head(layout)
             rest == format_map(Tail(layout), res)
         IN IF part.key # "" /\ ~res[part.key].some
            THEN [exc |-> "KeyError", text |-> <<>>]
            ELSE IF rest.exc # "" THEN rest
            ELSE [exc |-> "",
                  text |-> (IF part.key = "" THEN part.lit ELSE res[part.key].v)
                              \o rest.text]

\* Page.create(data, path, template): [exc, file]; the layout is filled
\* with the values of data as they are
page_create(data, tpl) ==
    LET contents == format_map(tpl.layout, data)
    IN [exc |-> contents.exc, file |-> contents.text]

\* ReferencePage.create(path, ref, template): [exc, file]; the layout is
\* filled with the values wrapped in their markers, and the two fenced
\* blocks are appended
ref_create(ref, tpl) ==
    LET entryKeys == { tpl.keys[k] : k \in 1..Len(tpl.keys) }
        res == [k \in Fields |->
                  IF k \in entryKeys /\ ref[k].some
                  THEN Some(Wrap(tpl, k, ref[k].v)) ELSE None]
        contents == format_map(tpl.layout, res)
        block(text) == <<"\n", "\n">> \o FenceOpen \o <<"\n">> \o Strip(text)
                          \o <<"\n">> \o Fence
    IN IF \E k \in entryKeys : ~ref[k].some THEN [exc |-> "TypeError", file |-> <<>>]
       ELSE IF contents.exc # "" THEN [exc |-> contents.exc, file |-> <<>>]
       ELSE IF ~ref["bibtex"].some \/ ~ref["bibtex_condensed"].some
       THEN [exc |-> "AttributeError", file |-> <<>>]
       ELSE [exc |-> "",
             file |-> contents.text \o block(ref["bibtex"].v)
                         \o block(ref["bibtex_condensed"].v)]

\* PageTemplate / ReferencePageTemplate: entries in dict order (keys and
\* their markers) and the layout
PageTplSemi ==
    [keys |-> <<"title", "year">>,
     entries |-> [title |-> << <<"t","=">>, <<";">> >>,
                  year |-> << <<"y","=">>, <<";">> >>],
     layout |-> <<Field("title"), Lit(<<"\n">>), Field("year"), Lit(<<"\n">>)>>]

\* the suffix of each marker is the end of the line
PageTplLine ==
    [keys |-> <<"title", "year">>,
     entries |-> [title |-> << <<"t","=">>, <<"\n">> >>,
                  year |-> << <<"y","=">>, <<"\n">> >>],
     layout |-> <<Field("title"), Field("year")>>]

PageTemplates == {PageTplSemi, PageTplLine}

\* both fields and one fenced block right after them
PageDocOneBlock ==
    [tpl |-> PageTplSemi,
     text |-> <<"t","=","a",";","\n">>
                 \o <<"y","=","1",";","\n">>
                 \o <<Backquote,Backquote,Backquote,"b","i","b","t","e","x","\n">>
                 \o <<"X","\n">>
                 \o <<Backquote,Backquote,Backquote,"\n">>]

\* a first line that matches the markers of both keys, and two fenced blocks
PageDocTwoBlocks ==
    [tpl |-> PageTplSemi,
     text |-> <<"t","=","a",";"," ","y","=","1",";","\n">>
                 \o <<"y","=","2",";","\n">>
                 \o <<Backquote,Backquote,Backquote,"b","i","b","t","e","x","\n">>
                 \o <<"X","\n">>
                 \o <<Backquote,Backquote,Backquote,"\n">>
                 \o <<Backquote,Backquote,Backquote,"b","i","b","t","e","x","\n">>
                 \o <<"Z","\n">>
                 \o <<Backquote,Backquote,Backquote,"\n">>]

\* two lines for title, none for year, no fenced block
PageDocNoYear ==
    [tpl |-> PageTplSemi,
     text |-> <<"t","=","a",";","\n">>
                 \o <<"t","=","b",";","\n">>
                 \o <<"e","n","d","\n">>]

\* markers that end with the line; a block whose text is indented
PageDocLine ==
    [tpl |-> PageTplLine,
     text |-> <<"t","=","a","\n">>
                 \o <<"\n">>
                 \o <<Backquote,Backquote,Backquote,"b","i","b","t","e","x","\n">>
                 \o <<" ","X","\n">>
                 \o <<Backquote,Backquote,Backquote,"\n">>
                 \o <<"y","=","1","\n">>]

\* markers that end with the line; no line for year
PageDocLineNoYear ==
    [tpl |-> PageTplLine,
     text |-> <<"t","=","a","\n">>
                 \o <<Backquote,Backquote,Backquote,"b","i","b","t","e","x","\n">>
                 \o <<"X","\n">>
                 \o <<Backquote,Backquote,Backquote,"\n">>]

PageDocuments == {PageDocOneBlock, PageDocTwoBlocks, PageDocNoYear, PageDocLine,
                  PageDocLineNoYear}

\* the data and the references given to create
RefA == [title |-> Some(<<"a">>), year |-> Some(<<"1">>),
         bibtex |-> Some(<<"X">>), bibtex_condensed |-> Some(<<"Z">>)]

RefB == [title |-> Some(<<"b">>), year |-> Some(<<"2">>),
         bibtex |-> Some(<<"W">>), bibtex_condensed |-> Some(<<"V">>)]

CreateRefs == {RefA, RefB}

\* the data of a save and the references of an update: the current one, the
\* current one with one field changed, and one that gives every field
InputRefs(data) ==
    { data,
      [data EXCEPT !["year"] = Some(<<"2">>)],
      [data EXCEPT !["bibtex"] = Some(<<"W">>)],
      [data EXCEPT !["bibtex_condensed"] = Some(<<"V">>)],
      RefB }

\* the record of a call on a page: the operation, the exception it raised
\* ("" for none), the operation before it, and what became of each line read
PageCall(op, ret, prev_op, replaced) ==
    [op |-> op, ret |-> ret, prev_op |-> prev_op, replaced |-> replaced]

PageNoCall == PageCall("none", "", "none", <<>>)

PageIdle ==
    /\ page_pc = "new"
    /\ page_kind = "Page"
    /\ page_template = PageTplSemi
    /\ page_file = <<>>
    /\ page_data = NoData
    /\ page_nops = 0
    /\ page_last = PageNoCall
    /\ page_file_before = <<>>
    /\ page_data_before = NoData

----------------------------------------------------------------------------
(* The Index as a state machine: one Index object on one file. *)

Pending == [exc |-> "pending", title |-> None]

MatcherIdle ==
    /\ m_titles = <<>>
    /\ m_query = <<>>
    /\ m_result = Pending

Init ==
    /\ pc = "new"
    /\ template = TplT
    /\ file = <<>>
    /\ tables = <<>>
    /\ owner = <<>>
    /\ nops = 0
    /\ last = NoCall
    /\ file_before = <<>>
    /\ tables_before = <<>>
    /\ inserted = <<>>
    /\ pure = FALSE
    /\ raised = FALSE
    /\ MatcherIdle
    /\ PageIdle
    /\ OtherIdle

\* index = Index.create(path, template)
Create ==
    \E tpl \in Templates :
        /\ pc = "new"
        /\ pc' = "ready"
        /\ template' = tpl
        /\ file' = CreateLines(tpl)
        /\ owner' = <<Other>> \o Block(1, 0)
        /\ tables' = load(file', owner', tpl)
        /\ file_before' = file'
        /\ tables_before' = tables'
        /\ pure' = TRUE
        /\ UNCHANGED <<nops, last, inserted, raised, matcherVars, pageVars, otherVars>>

\* index = Index.load(path, template) on an existing document
Load ==
    \E d \in Documents :
        /\ pc = "new"
        /\ pc' = "ready"
        /\ template' = d.tpl
        /\ file' = d.lines
        /\ owner' = d.owners
        /\ tables' = load(d.lines, d.owners, d.tpl)
        /\ file_before' = file'
        /\ tables_before' = tables'
        /\ UNCHANGED <<nops, last, inserted, pure, raised, matcherVars, pageVars, otherVars>>

\* the effect of one call on the Index and on the ghosts
Call(res, call) ==
    /\ tables' = res.tables
    /\ file' = res.file
    /\ owner' = res.owner
    /\ nops' = nops + 1
    /\ last' = call
    /\ file_before' = file
    /\ tables_before' = tables
    /\ raised' = (raised \/ res.ret \notin {"True", "False", "None"})
    /\ UNCHANGED <<pc, template, matcherVars, pageVars, otherVars>>

\* index.insert_row(values, table_name)
InsertRow ==
    \E values \in InputValues(template), table_name \in InputNames :
        LET r == ResolveTable(tables, table_name)
            res == insert_row(tables, file, owner, template, values, table_name)
        IN /\ pc = "ready"
           /\ nops < MaxOps
           /\ r.k # 0 => Len(tables[r.k].rows) < MaxRows
           /\ Call(res, CallRecord("insert_row", table_name, 0, values,
                                    res.ret, r.k, last))
           /\ pure' = (pure /\ res.ret = "True")
           /\ inserted' = IF pure /\ res.ret = "True"
                          THEN Append(inserted, values) ELSE inserted

\* index.update_row(idx, values, table_name)
UpdateRow ==
    \E idx \in InputIdx, values \in InputValues(template), table_name \in InputNames :
        LET r == ResolveTable(tables, table_name)
            res == update_row(tables, file, owner, template, idx, values, table_name)
        IN /\ pc = "ready"
           /\ nops < MaxOps
           /\ Call(res, CallRecord("update_row", table_name, idx, values,
                                    res.ret, r.k, last))
           /\ pure' = FALSE
           /\ UNCHANGED inserted

\* index.format()
Format ==
    LET res == format(tables, file, owner, template)
    IN /\ pc = "ready"
       /\ nops < MaxOps
       /\ Call(res, CallRecord("format", None, 0, NoValues, res.ret, 0, last))
       /\ pure' = FALSE
       /\ UNCHANGED inserted

Next == Create \/ Load \/ InsertRow \/ UpdateRow \/ Format

Spec == Init /\ [][Next]_vars

----------------------------------------------------------------------------
(* Properties of the Index. *)

Columns == { template.columns[k] : k \in 1..Len(template.columns) }

\* the 1-based positions of the lines of f that own holds for <<id, role>>
Owned(own, id, role) == { i \in 1..Len(own) : own[i] = <<id, role>> }

\* the last call was op and ran _write_table to its end
Wrote(op) == last.op = op /\ last.ret = "True"

\* the subsequence of f at the positions outside the set S
RECURSIVE Without(_, _, _)
Without(f, S, i) ==
    IF i > Len(f) THEN <<>>
    ELSE IF i \in S THEN Without(f, S, i + 1)
    ELSE <<f[i]>> \o Without(f, S, i + 1)

C2_FormatIdempotent ==
    (/\ last.op = "format" /\ last.ret = "None"
     /\ last.prev_op = "format" /\ last.prev_ret = "None")
        => file = file_before

\* C3: after Index.create and n >= 1 insert_row calls, loading the file
\* gives one table whose rows are the inserted values, in insertion order
C3_InsertThenLoad ==
    (pure /\ Len(inserted) >= 1) =>
        LET loaded == load(file, owner, template)
        IN /\ Len(loaded) = 1
           /\ Len(loaded[1].rows) = Len(inserted)
           /\ \A r \in 1..Len(inserted) :
                /\ DOMAIN loaded[1].rows[r] = Columns
                /\ \A c \in Columns : loaded[1].rows[r][c] = inserted[r][c]

\* the lines of f that belong to the table t: its header line, the line
\* after it when that is a table line, and its data rows
TableBlock(f, t) ==
    {t.start_line - 1}
        \cup { i \in {t.start_line} :
                 i <= Len(f) /\ MatchAt(Strip(f[i]), <<"|">>, 1) }
        \cup (t.start_line + 1)..t.end_line

\* the positions of tbls that the last call wrote
Targets(tbls) ==
    IF last.op = "format" THEN 1..Len(tbls) ELSE {last.k}

\* C4: a completed insert_row, update_row or format keeps every line that
\* is not a header, separator or data line of a table it wrote, in order
C4_SurroundingPreserved ==
    (Wrote("insert_row") \/ Wrote("update_row")
        \/ (last.op = "format" /\ last.ret = "None")) =>
        Without(file, UNION { TableBlock(file, tables[k]) : k \in Targets(tables) }, 1)
          = Without(file_before,
                    UNION { TableBlock(file_before, tables_before[k]) :
                              k \in Targets(tables_before) }, 1)

\* the row that the last insert_row or update_row wrote, as load reads it
\* back from the file: the set of the entries found at its place
RowReadBack ==
    LET t == tables[last.k]
        r == IF last.op = "insert_row" THEN Len(t.rows) ELSE last.idx + 1
    IN { u.rows[r] : u \in
           { tables2 \in { load(file, owner, template)[j] :
                             j \in 1..Len(load(file, owner, template)) } :
               tables2.start_line = t.start_line /\ Len(tables2.rows) >= r } }

\* C5: a row with a value that contains '|', written by insert_row or
\* update_row, is read back by load with every column's original value
C5_EscapingRoundTrip ==
    ((Wrote("insert_row") \/ Wrote("update_row"))
        /\ \E c \in Columns : Contains(last.values[c], <<"|">>)) =>
        /\ RowReadBack # {}
        /\ \A e \in RowReadBack :
             /\ DOMAIN e = Columns
             /\ \A c \in Columns : e[c] = last.values[c]

\* the last call is one that the spec answers with NotFound: a non-empty
\* table_name for which the matcher returns None, or an update_row whose idx
\* is outside the rows of the resolved table
NotFoundCase ==
    /\ last.op \in {"insert_row", "update_row"}
    /\ \/ /\ last.name.some
          /\ last.name.v # <<>>
          /\ find_best_matching_table(Keys(tables_before), last.name.v)
                = [exc |-> "", title |-> None]
       \/ /\ last.op = "update_row"
          /\ last.k # 0
          /\ (last.idx < 0 \/ last.idx >= Len(tables_before[last.k].rows))

C7_EmptyIndexNotFound ==
    (last.op \in {"insert_row", "update_row"} /\ tables_before = <<>>) =>
        last.ret = "False"

\* C8: an insert_row or update_row that does not complete (it returns False
\* or raises) leaves the file as it was
C8_NoPartialWrite ==
    (last.op \in {"insert_row", "update_row"} /\ last.ret # "True") =>
        file = file_before

\* C8 witness: rendering raised KeyError for values that lack a column, on a
\* table that has lines in the file
C8_Witness ==
    /\ last.op \in {"insert_row", "update_row"}
    /\ last.ret = "KeyError"
    /\ last.k # 0
    /\ file # <<>>

\* C9: every range has start_line <= end_line, and of two tables the one
\* that comes first in the document ends before the other one starts
C9_RangeInvariant ==
    /\ \A k \in 1..Len(tables) : tables[k].start_line <= tables[k].end_line
    /\ \A j, k \in 1..Len(tables) :
         j # k =>
            /\ tables[j].id # tables[k].id
            /\ tables[j].id < tables[k].id =>
                 /\ tables[j].start_line < tables[k].start_line
                 /\ tables[j].end_line < tables[k].start_line

\* C9 witness: two tables, the first of which has grown by two rows
C9_Witness ==
    /\ Len(tables) = 2
    /\ Wrote("insert_row")
    /\ last.k = 1
    /\ last.prev_op = "insert_row"
    /\ last.prev_ret = "True"
    /\ last.prev_k = 1

\* C11: Index.create gives, for every template, an Index of exactly one
\* table, titled 'Index', without rows and with start_line = end_line = 3
C11_CreateGivesEmptyIndexTable ==
    (pure /\ nops = 0) =>
        tables = <<Table(Some(<<"I","n","d","e","x">>), 3, 3, <<>>, 1)>>

\* the trimmed cell is of the form [text](url), from its first character to
\* its last
IsLinkCell(cell) ==
    /\ cell # <<>>
    /\ LinkAt(cell, 1)
    /\ FirstAfter(cell, ")", FirstAfter(cell, "]", 1) + 1) = Len(cell)

\* what the specification reads from a trimmed cell: the text of the link
\* when the cell is a link, the cell itself otherwise
Unwrapped(cell) ==
    IF IsLinkCell(cell) THEN Slice(cell, 1, FirstAfter(cell, "]", 1) - 1) ELSE cell

\* the trimmed cells of a data line
TrimmedCells(line) ==
    LET cells == Split(StripChar(Strip(line), "|"), "|")
    IN [k \in 1..Len(cells) |-> Strip(cells[k])]

\* C12: a 'reference' value p that insert_row or update_row has just written
\* as [p](p) is read back by load as p, and load reads every cell of every
\* data line as its link text when the whole cell is a link [text](url) and
\* as the trimmed cell itself otherwise
C12_LinkUnwrap ==
    /\ ((Wrote("insert_row") \/ Wrote("update_row"))
            /\ "reference" \in DOMAIN last.values) =>
          /\ RowReadBack # {}
          /\ \A e \in RowReadBack : e["reference"] = last.values["reference"]
    /\ LET loaded == load(file, owner, template)
       IN \A j \in 1..Len(loaded) : \A r \in 1..Len(loaded[j].rows) :
            LET cells == TrimmedCells(file[loaded[j].start_line + r])
            IN \A k \in 1..Min(Len(cells), Len(template.columns)) :
                 loaded[j].rows[r][template.columns[k]] = Unwrapped(cells[k])

\* C13: format() right after load keeps, for every table, the number of data
\* lines and the trimmed cell texts of each data line
C13_FormatOnlyPads ==
    (nops = 1 /\ last.op = "format") =>
        /\ Len(tables) = Len(tables_before)
        /\ \A k \in 1..Len(tables) :
             LET t == tables[k]
                 b == tables_before[k]
             IN /\ t.end_line - t.start_line = b.end_line - b.start_line
                /\ \A r \in 1..(b.end_line - b.start_line) :
                     /\ t.start_line + r <= Len(file)
                     /\ TrimmedCells(file[t.start_line + r])
                          = TrimmedCells(file_before[b.start_line + r])

\* the trimmed cells of the data line of row r (from 1) of table t in f, or
\* no cells when f has no such line
CellsOfRow(f, t, r) ==
    IF t.start_line + r <= Len(f) THEN TrimmedCells(f[t.start_line + r]) ELSE <<>>

\* C22: as long as no call has raised, a completed update_row(idx, values, T)
\* leaves in the file the given values in row idx of T, as load reads them,
\* and the same cells as before in every other row of T and in every row of
\* every other table
C22_UpdateRowReplacesOneRow ==
    (Wrote("update_row") /\ ~raised) =>
        /\ \A e \in RowReadBack :
             /\ DOMAIN e = Columns
             /\ \A c \in Columns : e[c] = last.values[c]
        /\ RowReadBack # {}
        /\ \A j \in 1..Len(tables_before) :
             \A r \in 1..Len(tables_before[j].rows) :
                (j # last.k \/ r # last.idx + 1) =>
                    CellsOfRow(file, tables[j], r)
                        = CellsOfRow(file_before, tables_before[j], r)

\* the positions of the column-delimiting pipes of a table line: the pipes
\* that no backslash escapes
PipePositions(line) ==
    { i \in 1..Len(line) : line[i] = "|" /\ (i = 1 \/ line[i - 1] # "\\") }

\* C23: after a completed insert_row, update_row or format, in every table
\* that the call wrote the separator line has, for each column, the width of
\* the column (the longer of the header and the longest value) plus 2 dashes,
\* and the header line, the separator line and every data line have the same
\* length and their column-delimiting pipes at the same positions
C23_ColumnAlignment ==
    (Wrote("insert_row") \/ Wrote("update_row")
        \/ (last.op = "format" /\ last.ret = "None")) =>
        \A k \in Targets(tables) :
            LET t == tables[k]
                header == file[t.start_line - 1]
                widths == RowWidths(template, t.rows, HeaderWidths(template))
            IN /\ file[t.start_line] = SeparatorLine(template, widths)
               /\ Len(header) = Len(file[t.start_line])
               /\ PipePositions(header) = PipePositions(file[t.start_line])
               /\ \A i \in (t.start_line + 1)..t.end_line :
                    /\ Len(file[i]) = Len(header)
                    /\ PipePositions(file[i]) = PipePositions(header)

\* C24: after load and after every insert_row, update_row or format call,
\* completed or not, every table has len(rows) = end_line - start_line, and
\* its rows in memory are the rows that load reads from its lines of the file
C24_RowCount ==
    pc = "ready" =>
        \A k \in 1..Len(tables) :
            LET t == tables[k]
            IN /\ Len(t.rows) = t.end_line - t.start_line
               /\ \A r \in 1..Len(t.rows) :
                    /\ t.start_line + r <= Len(file)
                    /\ t.rows[r] = ParseRow(template, file[t.start_line + r])

\* the 1-based positions of the lines of the file that are header lines
HeaderLines ==
    { i \in 1..Len(file) : RemoveSpace(file[i]) = TableSignature(template) }

\* the title of the nearest section header before line i, or None
MarkerBefore(i) ==
    LET marks == { j \in 1..(i - 1) :
                     extract_between(file[j], template.separator[1],
                                     template.separator[2]).some }
    IN IF marks = {} THEN None
       ELSE extract_between(file[CHOOSE j \in marks : \A m \in marks : m <= j],
                            template.separator[1], template.separator[2])

\* C25: right after load the Index holds exactly one table for each header
\* line of the document, keyed by the title of the nearest section header
\* before that line
C25_OneTablePerHeader ==
    (pc = "ready" /\ nops = 0) =>
        /\ Len(tables) = Cardinality(HeaderLines)
        /\ \A i \in HeaderLines :
             \E k \in 1..Len(tables) :
                /\ tables[k].start_line = i + 1
                /\ tables[k].key = MarkerBefore(i)

----------------------------------------------------------------------------
(* The table-name matcher on its own: one call of find_best_matching_table. *)

MaxTitles == 3      \* titles in one candidate list

TitleRelatedWork == Some(<<"R","e","l","a","t","e","d"," ","W","o","r","k">>)

TitleBaselines == Some(<<"B","a","s","e","l","i","n","e","s">>)

TitleAblationStudies == Some(<<"A","b","l","a","t","i","o","n"," ","S","t","u","d","i","e","s">>)

TitleADashB == Some(<<"a","-","b">>)

TitleXAB == Some(<<"x"," ","A"," ","B">>)

TitleUpperAB == Some(<<"A"," ","B">>)

TitleBACD == Some(<<"b"," ","a"," ","c"," ","d">>)

QueryBaseline == <<"b","a","s","e","l","i","n","e">>

QueryAblationStudy == <<"a","b","l","a","t","i","o","n"," ","s","t","u","d","y">>

QueryQwerty == <<"q","w","e","r","t","y">>

QueryAB == <<"a"," ","b">>

QueryBA == <<"b"," ","a">>

QueryUpperB == <<"B">>

\* 'Baselines' with its last letter mistyped
QueryBaselinez == <<"b","a","s","e","l","i","n","e","z">>

\* 'Related Work' with a letter left out
QueryReltedWork == <<"r","e","l","t","e","d"," ","w","o","r","k">>

Titles == {TitleRelatedWork, TitleBaselines, TitleAblationStudies, TitleADashB, TitleXAB, TitleUpperAB, TitleBACD}

Queries == {QueryBaseline, QueryAblationStudy, QueryQwerty, QueryAB, QueryBA,
            QueryUpperB, QueryBaselinez, QueryReltedWork}

\* the candidate lists: every list of at most MaxTitles distinct titles (the
\* callers pass the keys of a dict)
TitleLists ==
    { l \in UNION { [1..n -> Titles] : n \in 0..MaxTitles } :
        \A i, j \in 1..Len(l) : l[i] = l[j] => i = j }

ExampleTitles == <<TitleRelatedWork, TitleBaselines, TitleAblationStudies>>

IndexIdle ==
    /\ pc = "new"
    /\ template = TplT
    /\ file = <<>>
    /\ tables = <<>>
    /\ owner = <<>>
    /\ nops = 0
    /\ last = NoCall
    /\ file_before = <<>>
    /\ tables_before = <<>>
    /\ inserted = <<>>
    /\ pure = FALSE
    /\ raised = FALSE

InitMatcher ==
    /\ IndexIdle
    /\ PageIdle
    /\ OtherIdle
    /\ m_titles \in TitleLists
    /\ m_query \in Queries
    /\ m_result = Pending

\* m_result = find_best_matching_table(m_titles, m_query)
Match ==
    /\ m_result = Pending
    /\ m_result' = find_best_matching_table(m_titles, m_query)
    /\ UNCHANGED <<m_titles, m_query, indexVars, pageVars, otherVars>>

NextMatcher == Match

SpecMatcher == InitMatcher /\ [][NextMatcher]_vars

\* the word-set Jaccard similarity of titles[i] to query as a fraction
\* <<numerator, denominator>>, 0 when neither has a word
Similarity(titles, query, i) ==
    LET a == WordSet(Lower(query))
        b == WordSet(Lower(titles[i].v))
    IN IF a \cup b = {} THEN <<0, 1>>
       ELSE <<Cardinality(a \cap b), Cardinality(a \cup b)>>

\* x < y and x <= y for fractions
FracLess(x, y) == x[1] * y[2] < y[1] * x[2]

FracLeq(x, y) == x[1] * y[2] <= y[1] * x[2]

\* the three-stage procedure of the specification
ReferenceMatch(titles, query) ==
    LET n == Len(titles)
        equal == { i \in 1..n : Lower(titles[i].v) = Lower(query) }
        within == { i \in 1..n :
                      \/ Contains(Lower(query), Lower(titles[i].v))
                      \/ Contains(Lower(titles[i].v), Lower(query)) }
        sim == [i \in 1..n |-> Similarity(titles, query, i)]
        best == { i \in 1..n :
                    /\ FracLeq(<<1, 2>>, sim[i])
                    /\ \A j \in 1..n : FracLeq(sim[j], sim[i])
                    /\ \A j \in 1..(i - 1) : FracLess(sim[j], sim[i]) }
        first(S) == CHOOSE i \in S : \A j \in S : i <= j
    IN IF equal # {} THEN titles[first(equal)]
       ELSE IF within # {} THEN titles[first(within)]
       ELSE IF best # {} THEN titles[first(best)]
       ELSE None

\* C10: find_best_matching_table returns what the three-stage procedure
\* returns, which is one of the candidates or None, and on the candidates
\* Related Work, Baselines, Ablation Studies it resolves 'baseline' to
\* Baselines and 'ablation study' and 'qwerty' to None
C10_MatcherIsReference ==
    m_result # Pending =>
        /\ m_result.exc = ""
        /\ m_result.title = ReferenceMatch(m_titles, m_query)
        /\ \/ m_result.title = None
           \/ \E i \in 1..Len(m_titles) : m_titles[i] = m_result.title
        /\ m_titles = ExampleTitles =>
             /\ m_query = QueryBaseline => m_result.title = TitleBaselines
             /\ m_query = QueryAblationStudy => m_result.title = None
             /\ m_query = QueryQwerty => m_result.title = None

\* C10 witness: two candidates of equal, maximal similarity, neither of them
\* a substring match; the earlier one is returned
C10_Witness ==
    /\ m_titles = <<TitleADashB, TitleUpperAB>>
    /\ m_query = QueryBA
    /\ m_result = [exc |-> "", title |-> TitleADashB]

\* q is t with one character of a word replaced by another word character
Substituted(t, q) ==
    /\ Len(t) = Len(q)
    /\ \E i \in 1..Len(t) :
         /\ t[i] # q[i]
         /\ IsWordChar(t[i])
         /\ IsWordChar(q[i])
         /\ \A j \in 1..Len(t) : j # i => t[j] = q[j]

\* q is t with one character of a word left out
Deleted(t, q) ==
    /\ Len(q) = Len(t) - 1
    /\ \E i \in 1..Len(t) :
         /\ IsWordChar(t[i])
         /\ q = Slice(t, 0, i - 1) \o Slice(t, i, Len(t))

\* q is t with a single-character typo inside a word
SingleTypo(t, q) == Substituted(t, q) \/ Deleted(t, q) \/ Deleted(q, t)

\* C20: when the query is one candidate title with a single-character typo
\* (compared ignoring case) and matches no other candidate, that candidate
\* is returned
C20_TypoTolerance ==
    m_result # Pending =>
        \A i \in 1..Len(m_titles) :
            (/\ SingleTypo(Lower(m_titles[i].v), Lower(m_query))
             /\ \A j \in 1..Len(m_titles) :
                  j # i => ReferenceMatch(<<m_titles[j]>>, m_query) = None)
                => m_result = [exc |-> "", title |-> m_titles[i]]

----------------------------------------------------------------------------
(* A page as a state machine: one Page or ReferencePage object on one file. *)

MaxPageOps == 2     \* save or update calls made on one page

\* page = Page.create(data, path, template)
PageCreate ==
    \E tpl \in PageTemplates, data \in CreateRefs :
        LET c == page_create(data, tpl)
        IN /\ page_pc = "new"
           /\ page_pc' = IF c.exc = "" THEN "ready" ELSE "new"
           /\ page_kind' = "Page"
           /\ page_template' = tpl
           /\ page_file' = c.file
           /\ page_data' = data
           /\ page_last' = PageCall("create", c.exc, page_last.op, <<>>)
           /\ page_file_before' = page_file
           /\ page_data_before' = page_data
           /\ UNCHANGED <<page_nops, indexVars, matcherVars, otherVars>>

\* page = ReferencePage.create(path, ref, template)
RefCreate ==
    \E tpl \in PageTemplates, ref \in CreateRefs :
        LET c == ref_create(ref, tpl)
        IN /\ page_pc = "new"
           /\ page_pc' = IF c.exc = "" THEN "ready" ELSE "new"
           /\ page_kind' = "ReferencePage"
           /\ page_template' = tpl
           /\ page_file' = c.file
           /\ page_data' = ref
           /\ page_last' = PageCall("create", c.exc, page_last.op, <<>>)
           /\ page_file_before' = page_file
           /\ page_data_before' = page_data
           /\ UNCHANGED <<page_nops, indexVars, matcherVars, otherVars>>

\* the files that load is called on: an existing document, or the file of
\* the page at hand
Loadable ==
    IF page_pc = "new" THEN PageDocuments
    ELSE {[tpl |-> page_template, text |-> page_file]}

\* page = Page.load(path, template)
PageLoad ==
    \E d \in Loadable :
        /\ page_pc = "new" \/ (page_kind = "Page" /\ page_last.op # "load")
        /\ page_pc' = "ready"
        /\ page_kind' = "Page"
        /\ page_template' = d.tpl
        /\ page_file' = d.text
        /\ page_data' = page_load(d.text, d.tpl)
        /\ page_last' = PageCall("load", "", page_last.op, <<>>)
        /\ page_file_before' = d.text
        /\ page_data_before' = page_data
        /\ UNCHANGED <<page_nops, indexVars, matcherVars, otherVars>>

\* page = ReferencePage.load(path, template)
RefLoad ==
    \E d \in Loadable :
        /\ page_pc = "new" \/ (page_kind = "ReferencePage" /\ page_last.op # "load")
        /\ page_pc' = "ready"
        /\ page_kind' = "ReferencePage"
        /\ page_template' = d.tpl
        /\ page_file' = d.text
        /\ page_data' = ref_load(d.text, d.tpl)
        /\ page_last' = PageCall("load", "", page_last.op, <<>>)
        /\ page_file_before' = d.text
        /\ page_data_before' = page_data
        /\ UNCHANGED <<page_nops, indexVars, matcherVars, otherVars>>

\* page.data = data; page.save()
PageSave ==
    \E data \in InputRefs(page_data) :
        LET r == page_save(page_file, page_template, data)
        IN /\ page_pc = "ready"
           /\ page_kind = "Page"
           /\ page_nops < MaxPageOps
           /\ page_nops' = page_nops + 1
           /\ page_file' = r.file
           /\ page_data' = data
           /\ page_last' = PageCall("save", r.exc, page_last.op, r.replaced)
           /\ page_file_before' = page_file
           /\ page_data_before' = page_data
           /\ UNCHANGED <<page_pc, page_kind, page_template, indexVars, matcherVars, otherVars>>

\* page.update(ref)
RefUpdate ==
    \E ref \in InputRefs(page_data) :
        LET r == ref_update(page_file, page_template, ref)
        IN /\ page_pc = "ready"
           /\ page_kind = "ReferencePage"
           /\ page_nops < MaxPageOps
           /\ page_nops' = page_nops + 1
           /\ page_file' = r.file
           /\ page_data' = ref
           /\ page_last' = PageCall("update", r.exc, page_last.op, r.replaced)
           /\ page_file_before' = page_file
           /\ page_data_before' = page_data
           /\ UNCHANGED <<page_pc, page_kind, page_template, indexVars, matcherVars, otherVars>>

NextPage == PageCreate \/ RefCreate \/ PageLoad \/ RefLoad \/ PageSave \/ RefUpdate

SpecPage == Init /\ [][NextPage]_vars

----------------------------------------------------------------------------
(* Properties of Page and ReferencePage. *)

\* the field keys of the page's template
PageKeys == { page_template.keys[k] : k \in 1..Len(page_template.keys) }

\* what load of the page's class reads from the file f
Loaded(f) ==
    IF page_kind = "Page" THEN page_load(f, page_template)
    ELSE ref_load(f, page_template)

\* the lines from position i on that are outside fenced blocks; the lines
\* that open and close a block belong to the block
RECURSIVE OutsideFrom(_, _, _)
OutsideFrom(lines, i, inBlock) ==
    IF i > Len(lines) THEN <<>>
    ELSE IF ~inBlock /\ MatchAt(lines[i], FenceOpen, 1)
    THEN OutsideFrom(lines, i + 1, TRUE)
    ELSE IF inBlock /\ MatchAt(lines[i], Fence, 1)
    THEN OutsideFrom(lines, i + 1, FALSE)
    ELSE IF inBlock THEN OutsideFrom(lines, i + 1, TRUE)
    ELSE <<lines[i]>> \o OutsideFrom(lines, i + 1, FALSE)

\* the lines of f outside fenced blocks; a Page knows no fenced blocks
Outside(f) ==
    IF page_kind = "Page" THEN ReadLines(f)
    ELSE OutsideFrom(ReadLines(f), 1, FALSE)

\* the trimmed texts of the closed fenced blocks from position i on; cur is
\* the text collected in the block that is open, and open tells whether one is
RECURSIVE BlocksFrom(_, _, _, _)
BlocksFrom(lines, i, open, cur) ==
    IF i > Len(lines) THEN <<>>
    ELSE IF ~open /\ MatchAt(lines[i], FenceOpen, 1)
    THEN BlocksFrom(lines, i + 1, TRUE, <<>>)
    ELSE IF open /\ MatchAt(lines[i], Fence, 1)
    THEN <<Strip(cur)>> \o BlocksFrom(lines, i + 1, FALSE, <<>>)
    ELSE IF open THEN BlocksFrom(lines, i + 1, TRUE, cur \o lines[i])
    ELSE BlocksFrom(lines, i + 1, FALSE, <<>>)

\* the texts of the closed fenced blocks of f, in order
Blocks(f) == BlocksFrom(ReadLines(f), 1, FALSE, <<>>)

\* the line matches the marker of some key of the template
Marked(line) == \E key \in PageKeys : Extract(page_template, line, key).some

\* the lines of f outside fenced blocks that match a marker, in order
MarkedLines(f) == SelectSeq(Outside(f), Marked)

\* the new reference differs from the one the page held, and only in the
\* fields of S
DiffersOnlyIn(S) ==
    /\ page_data # page_data_before
    /\ \A k \in Fields \ S : page_data[k] = page_data_before[k]

\* C14: on a reference page that has just been loaded, update with a
\* Reference that differs from the loaded one only in year keeps the text of
\* every fenced block, and update with a Reference that differs only in
\* bibtex or bibtex_condensed keeps every marked field line
C14_FieldIsolation ==
    (page_kind = "ReferencePage" /\ page_last.op = "update"
        /\ page_last.prev_op = "load") =>
        /\ DiffersOnlyIn({"year"}) => Blocks(page_file) = Blocks(page_file_before)
        /\ DiffersOnlyIn({"bibtex", "bibtex_condensed"}) =>
             MarkedLines(page_file) = MarkedLines(page_file_before)

\* C15: ReferencePage.load of a page with two closed fenced blocks gives
\* bibtex the text of the first and bibtex_condensed the text of the second;
\* with exactly one closed block bibtex is its text
C15_BlocksByPosition ==
    (page_kind = "ReferencePage" /\ page_last.op = "load") =>
        LET b == Blocks(page_file)
        IN /\ Len(b) = 2 =>
                /\ page_data["bibtex"] = Some(b[1])
                /\ page_data["bibtex_condensed"] = Some(b[2])
           /\ Len(b) = 1 => page_data["bibtex"] = Some(b[1])

\* what became of the lines outside fenced blocks in the last save or update
OutsideTags ==
    LET isOutside(tag) == tag \notin {"open", "inside", "close"}
    IN SelectSeq(page_last.replaced, isOutside)

\* C16: a completed save or update keeps the number of lines outside fenced
\* blocks; a line that matched no marker is the same line at the same
\* position, a line that matched is one line prefix + value + suffix, and a
\* later load reads every rewritten field's new value
C16_LineForLine ==
    (page_last.op \in {"save", "update"} /\ page_last.ret = "") =>
        LET before == Outside(page_file_before)
            after == Outside(page_file)
            tags == OutsideTags
        IN /\ Len(after) = Len(before)
           /\ \A i \in 1..Len(before) :
                /\ tags[i] = "" => after[i] = before[i]
                /\ tags[i] # "" =>
                     LET line == Wrap(page_template, tags[i], page_data[tags[i]].v)
                     IN after[i] = line \/ after[i] = line \o <<"\n">>
           /\ \A i \in 1..Len(tags) :
                tags[i] # "" => Loaded(page_file)[tags[i]] = page_data[tags[i]]

\* the keys of the template that no line outside fenced blocks of f matches
MissingKeys(f) ==
    { key \in PageKeys :
        \A i \in 1..Len(Outside(f)) :
            ~Extract(page_template, Outside(f)[i], key).some }

\* the data of the save, or the reference of the update, holds a value for
\* every field that the call writes: the keys that have a line, and the
\* fenced blocks of a reference page
ValuesProvided ==
    /\ \A key \in PageKeys \ MissingKeys(page_file_before) : page_data[key].some
    /\ page_kind = "ReferencePage" =>
         /\ Len(Blocks(page_file_before)) >= 1 => page_data["bibtex"].some
         /\ Len(Blocks(page_file_before)) >= 2 => page_data["bibtex_condensed"].some

C18_FirstMatchPerKey ==
    page_last.op = "load" =>
        \A key \in PageKeys :
            LET lines == Outside(page_file)
                hits == { i \in 1..Len(lines) :
                            Extract(page_template, lines[i], key).some }
            IN IF hits = {} THEN page_data[key] = None
               ELSE page_data[key]
                      = Extract(page_template,
                                lines[CHOOSE i \in hits : \A j \in hits : i <= j], key)

\* the keys that the layout of the page's template refers to
LayoutKeys ==
    { page_template.layout[k].key : k \in 1..Len(page_template.layout) } \ {""}

\* C19: load of a file that create has just written gives every key of the
\* layout the value given to create
C19_CreateLoadRoundTrip ==
    (page_last.op = "create" /\ page_last.ret = "") =>
        \A key \in LayoutKeys :
            /\ page_data[key].some
            /\ Loaded(page_file)[key] = page_data[key]

\* the file at hand before the last call is the file that
\* ReferencePage.create wrote for some reference, after one update(ref)
\* with the reference of the last call
CreatedThenUpdated ==
    \E ref0 \in CreateRefs :
        LET c == ref_create(ref0, page_template)
            u == ref_update(c.file, page_template, page_data)
        IN c.exc = "" /\ u.exc = "" /\ page_file_before = u.file

\* C27: ReferencePage.update is idempotent on the file: on a page that
\* ReferencePage.create produced, a second update(r) with the same
\* reference r (every field given) leaves the file as the first update(r)
\* left it
C27_UpdateIdempotent ==
    (/\ page_kind = "ReferencePage"
     /\ page_last.op = "update" /\ page_last.ret = ""
     /\ page_last.prev_op = "update"
     /\ page_data = page_data_before
     /\ \A k \in Fields : page_data[k].some
     /\ CreatedThenUpdated)
        => page_file = page_file_before

----------------------------------------------------------------------------
(* Reference.__eq__ on its own (src/bibim/reference.py): the comparison    *)
(* made before a page is rewritten.                                        *)

\* s.split(): the words of s that whitespace separates
RECURSIVE Words(_)
Words(s) ==
    LET t == Strip(s)
    IN IF t = <<>> THEN <<>>
       ELSE IF \A i \in 1..Len(t) : ~IsSpace(t[i]) THEN <<t>>
       ELSE LET p == CHOOSE i \in 1..Len(t) :
                       IsSpace(t[i]) /\ \A j \in 1..(i - 1) : ~IsSpace(t[j])
            IN <<Slice(t, 0, p - 1)>> \o Words(Slice(t, p, Len(t)))

\* Reference.author_last_names: [exc, names].  An author that is None has
\* no split (AttributeError); a part without a word has no last word
\* (IndexError).
author_last_names(author) ==
    IF ~author.some THEN [exc |-> "AttributeError", names |-> <<>>]
    ELSE LET parts == Split(author.v, ",")
         IN IF \E i \in 1..Len(parts) : Words(Strip(parts[i])) = <<>>
            THEN [exc |-> "IndexError", names |-> <<>>]
            ELSE [exc |-> "",
                  names |-> [i \in 1..Len(parts) |->
                               LET w == Words(Strip(parts[i])) IN w[Len(w)]]]

\* Reference.__eq__(self, other): "True", "False" or the exception raised.
\* zip stops at the end of the shorter list of last names.
ref_eq(self, other) ==
    IF ~self.title.some \/ ~other.title.some THEN "AttributeError"
    ELSE IF Lower(self.title.v) # Lower(other.title.v) THEN "False"
    ELSE LET a == author_last_names(self.author)
             b == author_last_names(other.author)
         IN IF a.exc # "" THEN a.exc
            ELSE IF b.exc # "" THEN b.exc
            ELSE IF \E i \in 1..Min(Len(a.names), Len(b.names)) :
                        Lower(a.names[i]) # Lower(b.names[i])
            THEN "False"
            ELSE "True"

\* the titles and the authors of the References compared
EqTitles == { Some(<<"T">>), Some(<<"t">>), Some(<<"u">>) }

EqAuthors ==
    { Some(<<"A"," ","B">>),
      Some(<<"a"," ","b">>),
      Some(<<"A"," ","B",","," ","C"," ","D">>),
      Some(<<"A"," ","B",",","C"," ","E">>),
      Some(<<"C"," ","D">>),
      Some(<<"A"," ","B",",">>),
      None }

EqReferences == [title : EqTitles, author : EqAuthors]

InitEq ==
    /\ IndexIdle
    /\ MatcherIdle
    /\ PageIdle
    /\ RaceIdle
    /\ BibIdle
    /\ SearchIdle
    /\ eq_self \in EqReferences
    /\ eq_other \in EqReferences
    /\ eq_result = "pending"

\* eq_result = (eq_self == eq_other)
Compare ==
    /\ eq_result = "pending"
    /\ eq_result' = ref_eq(eq_self, eq_other)
    /\ UNCHANGED <<eq_self, eq_other, indexVars, matcherVars, pageVars, raceVars, bibVars, searchVars>>

NextEq == Compare

SpecEq == InitEq /\ [][NextEq]_vars

\* the last names of the authors of a Reference, in lower case
LastNamesLower(ref) ==
    LET a == author_last_names(ref.author)
    IN [i \in 1..Len(a.names) |-> Lower(a.names[i])]

\* C21: two References compare equal exactly when their titles are equal
\* ignoring case and their sequences of author last names are equal ignoring
\* case, position by position; References whose sequences of last names
\* differ compare unequal
C21_EqualityByTitleAndLastNames ==
    eq_result \in {"True", "False"} =>
        (eq_result = "True" <=>
            /\ Lower(eq_self.title.v) = Lower(eq_other.title.v)
            /\ LastNamesLower(eq_self) = LastNamesLower(eq_other))

----------------------------------------------------------------------------
(* Two writers on one file: two Index objects loaded from the same file,   *)
(* each one running insert_row once.  _write_table reads the file (lines   *)
(* 234-239) and writes it back (lines 245-246) as two steps, with no lock  *)
(* around them; the steps of the two writers interleave.  The block that   *)
(* opens the file for writing and writes it is taken as one step.          *)

Writers == {1, 2}

\* the files both writers load: one that Index.create wrote, and documents
RaceDocuments ==
    { [tpl |-> TplT, lines |-> CreateLines(TplT), owners |-> <<Other>> \o Block(1, 0)],
      [tpl |-> TplTR, lines |-> CreateLines(TplTR), owners |-> <<Other>> \o Block(1, 0)],
      DocTwo, DocTwoRef }

\* the values that writer w inserts: every column of the template given
RaceValues(tpl, w) ==
    LET titles == IF w = 1 THEN { <<"m">>, <<"m","m">> } ELSE { <<"n">>, <<"n","n">> }
    IN IF Len(tpl.columns) = 1
       THEN { [title |-> t] : t \in titles }
       ELSE { [title |-> t, reference |-> <<"p">>] : t \in titles }

InitRace ==
    /\ IndexIdle
    /\ MatcherIdle
    /\ PageIdle
    /\ EqIdle
    /\ BibIdle
    /\ SearchIdle
    /\ \E d \in RaceDocuments :
          /\ race_template = d.tpl
          /\ race_file = [lines |-> d.lines, owners |-> d.owners]
          /\ race_tables = [w \in Writers |-> load(d.lines, d.owners, d.tpl)]
    /\ race_pc = [w \in Writers |-> "idle"]
    /\ race_values = [w \in Writers |-> NoValues]
    /\ race_lines_old = [w \in Writers |-> <<>>]
    /\ race_events = <<>>

\* writer w calls insert_row(values): the table is resolved and the row is
\* appended to it (lines 183-197); _write_table then renders the table
\* from the writer's own tables
RaceInsert(w) ==
    \E values \in RaceValues(race_template, w) :
        LET r == ResolveTable(race_tables[w], None)
        IN /\ race_pc[w] = "idle"
           /\ race_values' = [race_values EXCEPT ![w] = values]
           /\ IF r.exc # "" \/ r.k = 0
              THEN /\ race_pc' = [race_pc EXCEPT ![w] = "done"]
                   /\ UNCHANGED race_tables
              ELSE /\ race_pc' = [race_pc EXCEPT ![w] = "read"]
                   /\ race_tables' = [race_tables EXCEPT ![w][r.k].rows = Append(@, values)]
           /\ UNCHANGED <<race_template, race_file, race_lines_old, race_events,
                          indexVars, matcherVars, pageVars, eqVars, bibVars, searchVars>>

\* writer w reads the file: lines_old = file.readlines()
RaceRead(w) ==
    /\ race_pc[w] = "read"
    /\ race_pc' = [race_pc EXCEPT ![w] = "write"]
    /\ race_lines_old' = [race_lines_old EXCEPT ![w] = race_file]
    /\ race_events' = Append(race_events, <<w, "read">>)
    /\ UNCHANGED <<race_template, race_file, race_tables, race_values,
                   indexVars, matcherVars, pageVars, eqVars, bibVars, searchVars>>

\* a mutant of RaceLinesOld: the write splices into the file as it is now
RaceLinesOldFresh(lines_old, current) == current

\* the lines that the table is spliced into: those the writer has read
RaceLinesOld(lines_old, current) == lines_old

\* writer w writes the file: lines_new is built from the lines it has read,
\* and the tables after the written one are shifted
RaceWrite(w) ==
    LET k == ResolveTable(race_tables[w], None).k
        old == RaceLinesOld(race_lines_old[w], race_file)
        res == write_table(race_tables[w], old.lines, old.owners, race_template, k)
    IN /\ race_pc[w] = "write"
       /\ race_pc' = [race_pc EXCEPT ![w] = "done"]
       /\ race_file' = [lines |-> res.file, owners |-> res.owner]
       /\ race_tables' = [race_tables EXCEPT ![w] = res.tables]
       /\ race_events' = Append(race_events, <<w, "write">>)
       /\ UNCHANGED <<race_template, race_values, race_lines_old,
                      indexVars, matcherVars, pageVars, eqVars, bibVars, searchVars>>

NextRace == \E w \in Writers : RaceInsert(w) \/ RaceRead(w) \/ RaceWrite(w)

SpecRace == InitRace /\ [][NextRace]_vars

\* the position in race_events of the step of writer w
EventAt(w, step) == CHOOSE i \in 1..Len(race_events) : race_events[i] = <<w, step>>

\* both writers have run insert_row to its end, and both have read the file
\* before either one has written it
BothReadFirst ==
    /\ \A w \in Writers : race_pc[w] = "done"
    /\ Len(race_events) = 4
    /\ \A w, v \in Writers : EventAt(w, "read") < EventAt(v, "write")

\* the rows of all the tables that Index.load finds in the file
RaceRows ==
    LET tbls == load(race_file.lines, race_file.owners, race_template)
    IN UNION { { tbls[k].rows[r] : r \in 1..Len(tbls[k].rows) } : k \in 1..Len(tbls) }

\* the file holds the row that writer w has inserted
RowInFile(w) == race_values[w] \in RaceRows

\* C26: when both writers read the file before either one writes it, the
\* file they leave lacks one of the two inserted rows: the row of the writer
\* that wrote first is lost, the row of the one that wrote last is there
C26_LostUpdate ==
    BothReadFirst =>
        \E w, v \in Writers :
            /\ EventAt(w, "write") < EventAt(v, "write")
            /\ ~RowInFile(w)
            /\ RowInFile(v)

\* both have read before either has written, and the row of writer 1 is lost
C26_Witness == BothReadFirst /\ ~RowInFile(1) /\ RowInFile(2)

----------------------------------------------------------------------------
(* The bibliography table of the command line (src/bibim/__main__.py).     *)
(* The file is one string with its newlines.  An entry is a dict from      *)
(* header to cell: a function whose domain is the set of its keys.         *)

KeyTitle == <<"T","i","t","l","e">>

KeyAuthors == <<"A","u","t","h","o","r","s">>

KeyPublication == <<"P","u","b","l","i","c","a","t","i","o","n">>

KeyYear == <<"Y","e","a","r">>

KeyURL == <<"U","R","L">>

KeyCitationCount == <<"C","i","t","a","t","i","o","n"," ","C","o","u","n","t">>

KeySummary == <<"S","u","m","m","a","r","y">>

\* the headers that create_new_bibliography writes
BibHeaders ==
    <<KeyTitle, KeyAuthors, KeyPublication, KeyYear, KeyURL, KeyCitationCount,
      KeySummary>>

\* create_new_bibliography(filename): the text written
create_new_bibliography ==
    <<"#"," ","B","i","b","l","i","o","g","r","a","p","h","y">> \o <<"\n", "\n">>
      \o <<"|"," ","T","i","t","l","e"," ","|"," ","A","u","t","h","o","r","s"," ","|"," ","P","u","b","l","i","c","a","t","i","o","n"," ","|"," ","Y","e","a","r"," ","|"," ","U","R","L"," ","|"," ","C","i","t","a","t","i","o","n"," ","C","o","u","n","t"," ","|"," ","S","u","m","m","a","r","y"," ","|">> \o <<"\n">>
      \o <<"|","-","-","-","-","-","-","-","|","-","-","-","-","-","-","-","-","-","|","-","-","-","-","-","-","-","-","-","-","-","-","-","|","-","-","-","-","-","-","|","-","-","-","-","-","|","-","-","-","-","-","-","-","-","-","-","-","-","-","-","-","-","|","-","-","-","-","-","-","-","-","-","|">> \o <<"\n">>

\* content.splitlines(): the lines of the text, without their newlines
SplitLines(s) ==
    LET ls == ReadLines(s)
    IN [i \in 1..Len(ls) |->
          IF ls[i][Len(ls[i])] = "\n" THEN Slice(ls[i], 0, Len(ls[i]) - 1) ELSE ls[i]]

\* line.strip().startswith('|') and 'Title' in line
IsTableHeader(line) == MatchAt(Strip(line), <<"|">>, 1) /\ Contains(line, KeyTitle)

\* table_start as a 1-based position in lines, 0 for None
TableStart(lines) ==
    IF \A i \in 1..Len(lines) : ~IsTableHeader(lines[i]) THEN 0
    ELSE CHOOSE i \in 1..Len(lines) :
            IsTableHeader(lines[i]) /\ \A j \in 1..(i - 1) : ~IsTableHeader(lines[j])

\* the position after the run of dashes that starts at i
AfterDashes(s, i) ==
    CHOOSE j \in i..(Len(s) + 1) :
        (\A k \in i..(j - 1) : s[k] = "-") /\ (j = Len(s) + 1 \/ s[j] # "-")

\* the position after the run of whitespace that starts at i
AfterSpaces(s, i) ==
    CHOOSE j \in i..(Len(s) + 1) :
        (\A k \in i..(j - 1) : IsSpace(s[k])) /\ (j = Len(s) + 1 \/ ~IsSpace(s[j]))

\* the part (-+\s*\|)+\s*$ of the pattern, matched from position i
RECURSIVE SepGroups(_, _)
SepGroups(s, i) ==
    LET j == AfterDashes(s, i)
        k == AfterSpaces(s, j)
    IN /\ j > i
       /\ k <= Len(s)
       /\ s[k] = "|"
       /\ (AfterSpaces(s, k + 1) = Len(s) + 1 \/ SepGroups(s, k + 1))

\* re.match(r'^\|\s*(-+\s*\|)+\s*$', s)
IsSeparator(s) == s # <<>> /\ s[1] = "|" /\ SepGroups(s, AfterSpaces(s, 2))

\* [line for line in table_lines if not re.match(..., line.strip())]
RECURSIVE DropSeparators(_)
DropSeparators(lines) ==
    IF lines = <<>> THEN <<>>
    ELSE IF IsSeparator(Strip(Head(lines))) THEN DropSeparators(Tail(lines))
    ELSE <<Head(lines)>> \o DropSeparators(Tail(lines))

\* [v.strip() for v in line.strip().strip('|').split('|')]
ParseCells(line) ==
    LET parts == Split(StripChar(Strip(line), "|"), "|")
    IN [i \in 1..Len(parts) |-> Strip(parts[i])]

\* values padded with '' or cut to the number of headers
FitValues(values, n) ==
    [i \in 1..n |-> IF i <= Len(values) THEN values[i] ELSE <<>>]

\* dict(zip(headers, values)): a header that occurs twice keeps its last value
ZipEntry(headers, values) ==
    [h \in { headers[i] : i \in 1..Len(headers) } |->
        values[CHOOSE i \in 1..Len(headers) :
                  headers[i] = h /\ \A j \in (i + 1)..Len(headers) : headers[j] # h]]

\* entry.get(h, '')
Get(entry, h) == IF h \in DOMAIN entry THEN entry[h] ELSE <<>>

\* the number of lines at the head of lines that start with '|'
RowRun(lines) ==
    CHOOSE n \in 0..Len(lines) :
        /\ \A i \in 1..n : MatchAt(Strip(lines[i]), <<"|">>, 1)
        /\ (n = Len(lines) \/ ~MatchAt(Strip(lines[n + 1]), <<"|">>, 1))

\* read_table(filename): [entries, headers]
read_table(text) ==
    LET lines == ReadLines(text)
        table_start == TableStart(lines)
    IN IF table_start = 0 THEN [entries |-> <<>>, headers |-> <<>>]
       ELSE LET table_lines == DropSeparators(SubSeq(lines, table_start, Len(lines)))
                headers == ParseCells(table_lines[1])
                rest == SubSeq(table_lines, 3, Len(table_lines))
            IN [entries |-> [r \in 1..RowRun(rest) |->
                               ZipEntry(headers,
                                        FitValues(ParseCells(rest[r]), Len(headers)))],
                headers |-> headers]

\* '| ' + ' | '.join(cells) + ' |'
TableLine(cells) == <<"|", " ">> \o Join(cells, <<" ", "|", " ">>) \o <<" ", "|">>

\* write_table(filename, entries, headers): the text of the file afterwards
bib_write_table(text, entries, headers) ==
    LET lines == SplitLines(text)
        table_start == TableStart(lines)
    IN IF table_start = 0 THEN text
       ELSE LET after == SubSeq(lines, table_start + 1, Len(lines))
                table_end == table_start + RowRun(after)
                table_lines ==
                    << TableLine(headers),
                       TableLine([i \in 1..Len(headers) |-> <<"-", "-", "-">>]) >>
                    \o [r \in 1..Len(entries) |->
                          TableLine([i \in 1..Len(headers) |->
                                       EscapePipes(Get(entries[r], headers[i]))])]
                new_lines == SubSeq(lines, 1, table_start - 1) \o table_lines
                                \o SubSeq(lines, table_end + 1, Len(lines))
            IN Join(new_lines, <<"\n">>)

\* [entry for entry in entries if entry.get('Title', '') != title]
RECURSIVE OtherTitles(_, _)
OtherTitles(entries, title) ==
    IF entries = <<>> THEN <<>>
    ELSE IF Get(Head(entries), KeyTitle) # title
    THEN <<Head(entries)>> \o OtherTitles(Tail(entries), title)
    ELSE OtherTitles(Tail(entries), title)

\* remove_reference(filename, title): the text of the file afterwards
remove_reference(text, title) ==
    LET t == read_table(text)
        new_entries == OtherTitles(t.entries, title)
    IN IF Len(t.entries) = Len(new_entries) THEN text
       ELSE bib_write_table(text, new_entries, t.headers)

\* what the lookups of add_reference return for a title: whether Google
\* Scholar has a paper, whether DBLP has metadata, and the fields they give
Lookup(papers, metadata, pub_url, arxiv_url, metadata_url) ==
    [papers |-> papers, metadata |-> metadata, pub_url |-> pub_url,
     arxiv_url |-> arxiv_url, metadata_url |-> metadata_url,
     authors |-> << <<"A", " ", "B">>, <<"C", " ", "D">> >>,
     venue |-> <<"V">>, year |-> <<"1">>, num_citations |-> <<"7">>,
     abstract |-> <<>>]

NoPapers == Lookup(FALSE, FALSE, <<>>, <<>>, <<>>)

NoMetadata == Lookup(TRUE, FALSE, <<"u">>, <<>>, <<>>)

Found == Lookup(TRUE, TRUE, <<"u">>, <<"x">>, <<>>)

Lookups == {NoPapers, NoMetadata, Found}

\* requests.utils.quote(s) for the characters of the model's titles
RECURSIVE Quote(_)
Quote(s) ==
    IF s = <<>> THEN <<>>
    ELSE (IF Head(s) = " " THEN <<"%", "2", "0">> ELSE <<Head(s)>>) \o Quote(Tail(s))

\* lines 309-325: the URL cell
UrlCell(lookup) ==
    LET link == IF lookup.pub_url # <<>>
                THEN <<"[","l","i","n","k","]","(">> \o lookup.pub_url \o <<")">> ELSE <<>>
        arxiv == IF lookup.arxiv_url # <<>>
                 THEN (IF link # <<>> THEN <<" ">> ELSE <<>>)
                         \o <<"[","a","r","X","i","v","]","(">> \o lookup.arxiv_url \o <<")">>
                 ELSE <<>>
        url_cell == link \o arxiv
    IN IF url_cell # <<>> THEN url_cell
       ELSE IF lookup.metadata_url # <<>>
       THEN <<"[","l","i","n","k","]","(">> \o lookup.metadata_url \o <<")">>
       ELSE <<"N","o"," ","U","R","L"," ","a","v","a","i","l","a","b","l","e">>

\* lines 328-334: the citation cell, a link to the Google Scholar page
CitationCell(lookup, paper_title) ==
    <<"[">> \o lookup.num_citations \o <<"]", "(">>
        \o <<"h","t","t","p","s",":","/","/","s","c","h","o","l","a","r",".","g","o","o","g","l","e",".","c","o","m","/","s","c","h","o","l","a","r","?","q","=">> \o Quote(paper_title)
        \o <<")">>

\* lines 340-348: the entry of the reference; write_table joins the list of
\* authors with ', '
NewEntry(lookup, paper_title) ==
    [h \in { BibHeaders[i] : i \in 1..Len(BibHeaders) } |->
        IF h = KeyTitle THEN paper_title
        ELSE IF h = KeyAuthors THEN Join(lookup.authors, <<",", " ">>)
        ELSE IF h = KeyPublication THEN lookup.venue
        ELSE IF h = KeyYear THEN lookup.year
        ELSE IF h = KeyURL THEN UrlCell(lookup)
        ELSE IF h = KeyCitationCount THEN CitationCell(lookup, paper_title)
        ELSE IF lookup.abstract # <<>> THEN lookup.abstract
        ELSE <<"N","o"," ","a","b","s","t","r","a","c","t"," ","a","v","a","i","l","a","b","l","e",".">>]

\* lines 350-359: the columns of the file that the entry lacks are taken
\* from existing_entry, '' without one (existing_entry is <<>> for None)
WithExtraColumns(entry, headers, existing_entry) ==
    [h \in DOMAIN entry \cup { headers[i] : i \in 1..Len(headers) } |->
        IF h \in DOMAIN entry THEN entry[h]
        ELSE IF existing_entry # <<>> THEN Get(existing_entry, h)
        ELSE <<>>]

\* add_reference(filename, title, existing_entry): the text of the file
\* afterwards.  Without a paper on Google Scholar or without metadata on
\* DBLP the function returns before it reads the file.
add_reference(text, title, existing_entry, lookup) ==
    IF ~lookup.papers THEN text
    ELSE IF ~lookup.metadata THEN text
    ELSE LET t == read_table(text)
             entry == WithExtraColumns(NewEntry(lookup, title), t.headers,
                                       existing_entry)
         IN bib_write_table(text, Append(t.entries, entry), t.headers)

\* the loop of update_references over the entries read at its head
RECURSIVE UpdateLoop(_, _, _, _)
UpdateLoop(text, entries, lookups, i) ==
    IF i > Len(entries) THEN text
    ELSE LET title == Get(entries[i], KeyTitle)
         IN IF title = <<>> THEN UpdateLoop(text, entries, lookups, i + 1)
            ELSE UpdateLoop(add_reference(remove_reference(text, title), title,
                                          entries[i], lookups[i]),
                            entries, lookups, i + 1)

\* update_references(filename): the text of the file afterwards
update_references(text, lookups) ==
    UpdateLoop(text, read_table(text).entries, lookups, 1)

MaxBibOps == 2      \* commands run on one bibliography file

MaxBibRows == 2     \* data rows of a bibliography table

\* the titles given to add and remove
BibTitles == { <<"P">>, <<"Q">> }

\* a data row as write_table writes it, and as a hand-written file has it
BibRow(title) ==
    TableLine(<<title, <<"A"," ","B">>, <<"V">>, <<"1">>, <<"u">>, <<"7">>, <<"s">>>>)

\* the files of the model: the one create_new_bibliography writes; the same
\* with two rows added by hand under its separator line; a table as
\* write_table writes it, with two rows; a file without a table
BibDocNew == create_new_bibliography

BibDocCompact ==
    create_new_bibliography \o BibRow(<<"P">>) \o <<"\n">> \o BibRow(<<"Q">>) \o <<"\n">>

BibDocWritten ==
    <<"#"," ","B","i","b","l","i","o","g","r","a","p","h","y">> \o <<"\n", "\n">>
      \o TableLine(BibHeaders) \o <<"\n">>
      \o TableLine([i \in 1..Len(BibHeaders) |-> <<"-", "-", "-">>]) \o <<"\n">>
      \o BibRow(<<"P">>) \o <<"\n">> \o BibRow(<<"Q">>) \o <<"\n">>
      \o <<"\n">> \o <<"e","n","d">>

BibDocNoTable == <<"#"," ","N","o","t","e","s">> \o <<"\n">>

BibDocuments == {BibDocNew, BibDocCompact, BibDocWritten, BibDocNoTable}

\* the record of a command: its name, its title, the lookups it was given
BibCall(op, title, lookups) == [op |-> op, title |-> title, lookups |-> lookups]

InitBib ==
    /\ IndexIdle
    /\ MatcherIdle
    /\ PageIdle
    /\ EqIdle
    /\ RaceIdle
    /\ SearchIdle
    /\ bib_file \in BibDocuments
    /\ bib_nops = 0
    /\ bib_last = BibCall("none", <<>>, <<>>)
    /\ bib_file_before = bib_file
    /\ bib_read = read_table(bib_file)

\* what every command does to the ghosts
BibStep(call) ==
    /\ bib_nops < MaxBibOps
    /\ bib_nops' = bib_nops + 1
    /\ bib_last' = call
    /\ bib_file_before' = bib_file
    /\ bib_read' = read_table(bib_file)
    /\ UNCHANGED <<indexVars, matcherVars, pageVars, eqVars, raceVars, searchVars>>

\* add_reference(filename, title)
BibAdd ==
    \E title \in BibTitles, lookup \in Lookups :
        /\ Len(read_table(bib_file).entries) < MaxBibRows
        /\ bib_file' = add_reference(bib_file, title, <<>>, lookup)
        /\ BibStep(BibCall("add", title, <<lookup>>))

\* remove_reference(filename, title)
BibRemove ==
    \E title \in BibTitles :
        /\ bib_file' = remove_reference(bib_file, title)
        /\ BibStep(BibCall("remove", title, <<>>))

\* update_references(filename)
BibUpdate ==
    \E lookups \in [1..Len(read_table(bib_file).entries) -> Lookups] :
        /\ bib_file' = update_references(bib_file, lookups)
        /\ BibStep(BibCall("update", <<>>, lookups))

\* generate_bibtex(filename): the table is read, the file is left as it is
BibRead ==
    /\ bib_last.op # "bib"
    /\ bib_file' = bib_file
    /\ BibStep(BibCall("bib", <<>>, <<>>))

NextBib == BibAdd \/ BibRemove \/ BibUpdate \/ BibRead

SpecBib == InitBib /\ [][NextBib]_vars

----------------------------------------------------------------------------
(* Properties of the bibliography table. *)

\* a separator line in either form: every cell is a run of dashes
IsRule(line) ==
    LET cells == ParseCells(line)
    IN /\ MatchAt(Strip(line), <<"|">>, 1)
       /\ \A i \in 1..Len(cells) :
             cells[i] # <<>> /\ \A k \in 1..Len(cells[i]) : cells[i][k] = "-"

\* the lines of the table's data rows, read from the text itself: the lines
\* that start with '|' after the header line and its separator line
DataRows(text) ==
    LET lines == ReadLines(text)
        start == TableStart(lines)
    IN IF start = 0 \/ start + 1 > Len(lines) THEN <<>>
       ELSE LET after == SubSeq(lines, start + 2, Len(lines))
            IN SubSeq(after, 1, RowRun(after))

\* the table has a header line, one separator line, and data rows
WellFormed(text) ==
    LET lines == ReadLines(text)
        start == TableStart(lines)
        rows == DataRows(text)
    IN /\ start # 0
       /\ start + 1 <= Len(lines)
       /\ IsRule(lines[start + 1])
       /\ \A r \in 1..Len(rows) : ~IsRule(rows[r])

\* the Title cell of each data row of the text
FileTitles(text) ==
    LET lines == ReadLines(text)
        rows == DataRows(text)
        headers == ParseCells(lines[TableStart(lines)])
    IN { Get(ZipEntry(headers, FitValues(ParseCells(rows[r]), Len(headers))), KeyTitle) :
            r \in 1..Len(rows) }

\* C28: update_references loses no reference: whatever the lookups return,
\* the table afterwards has a row for every title it had a row for before
C28_UpdateLosesNoReference ==
    (bib_last.op = "update" /\ WellFormed(bib_file_before)) =>
        \A title \in FileTitles(bib_file_before) :
            title # <<>> => title \in FileTitles(bib_file)

\* C29: read_table returns every data row: for a file whose table has a
\* header line, one separator line in either form and n data rows, it
\* returns n entries, one per data row, in the order of the file
C29_ReadTableReturnsEveryRow ==
    (bib_last.op # "none" /\ WellFormed(bib_file_before)) =>
        LET lines == ReadLines(bib_file_before)
            rows == DataRows(bib_file_before)
            headers == ParseCells(lines[TableStart(lines)])
        IN /\ Len(bib_read.entries) = Len(rows)
           /\ \A r \in 1..Len(rows) :
                 bib_read.entries[r] =
                     ZipEntry(headers, FitValues(ParseCells(rows[r]), Len(headers)))

----------------------------------------------------------------------------
(* search_reference (src/bibim/search.py).  What Google Scholar, DBLP,     *)
(* arXiv and the user answer is the input of a run.                        *)

\* faln(author), the first author's last name: [exc, name].  A first part
\* without a word has no last word (IndexError).
faln(author) ==
    LET w == Words(Split(author, ",")[1])
    IN IF w = <<>> THEN [exc |-> "IndexError", name |-> <<>>]
       ELSE [exc |-> "", name |-> Strip(w[Len(w)])]

\* a Reference, every field an optional string
SearchReference(author, title, year, bibtex, bibtex_condensed, venue, url, num_citations) ==
    [author |-> author, title |-> title, year |-> year, bibtex |-> bibtex,
     bibtex_condensed |-> bibtex_condensed, venue |-> venue, url |-> url,
     num_citations |-> num_citations]

NoReference == SearchReference(None, None, None, None, None, None, None, None)

\* the outcome of search_reference: ret is "None", "Reference" or the
\* exception raised
SearchOutcome(ret, ref) == [ret |-> ret, ref |-> ref]

\* lines 19-41: the Google Scholar result that is selected, [ret, k] with k
\* the position in results; ret is "" when one is selected.  The prompt
\* prints faln of every result before it reads the choice.
SelectGoogle(results, ask_user, choice) ==
    IF results = <<>> THEN [ret |-> "None", k |-> 0]
    ELSE IF Len(results) = 1 THEN [ret |-> "", k |-> 1]
    ELSE IF ask_user THEN
        IF \E i \in 1..Len(results) : faln(results[i].author_concise).exc # ""
        THEN [ret |-> "IndexError", k |-> 0]
        ELSE IF ~choice.valid THEN [ret |-> "None", k |-> 0]
        ELSE IF choice.n = 0 THEN [ret |-> "None", k |-> 0]
        ELSE IF 1 <= choice.n /\ choice.n <= Len(results) THEN [ret |-> "", k |-> choice.n]
        ELSE [ret |-> "None", k |-> 0]
    ELSE [ret |-> "", k |-> 1]

\* lines 48-52 and 64-68: the first result with the title and the first
\* author's last name of the Google Scholar result, ignoring case: [exc, k],
\* k = 0 for None.  faln of a result is taken only when its title matches.
RECURSIVE BestMatch(_, _, _)
BestMatch(results, google_result, i) ==
    IF i > Len(results) THEN [exc |-> "", k |-> 0]
    ELSE IF Lower(results[i].title) # Lower(google_result.title)
    THEN BestMatch(results, google_result, i + 1)
    ELSE IF faln(results[i].author).exc # "" THEN [exc |-> "IndexError", k |-> 0]
    ELSE IF Lower(faln(results[i].author).name)
                = Lower(faln(google_result.author_concise).name)
    THEN [exc |-> "", k |-> i]
    ELSE BestMatch(results, google_result, i + 1)

\* line 58, parse_dblp_bibtex(dblp_result.dblp_url): dblp_result is read
\* whether or not a result has matched; None has no attribute dblp_url
BibtexOf(dblp_results, k) ==
    IF k = 0 THEN [exc |-> "AttributeError", bibtex |-> None, bibtex_condensed |-> None]
    ELSE [exc |-> "", bibtex |-> Some(<<"X">>), bibtex_condensed |-> Some(<<"Z">>)]

\* search_reference(title, ask_user)
search_reference(input) ==
    LET sel == SelectGoogle(input.google, input.ask_user, input.choice)
        google_result == input.google[sel.k]
        dblp == BestMatch(input.dblp, google_result, 1)
        bib == BibtexOf(input.dblp, dblp.k)
        arxiv == BestMatch(input.arxiv, google_result, 1)
    IN IF sel.ret # "" THEN SearchOutcome(sel.ret, NoReference)
       ELSE IF faln(google_result.author_concise).exc # ""
       THEN SearchOutcome("IndexError", NoReference)
       ELSE IF dblp.exc # "" THEN SearchOutcome(dblp.exc, NoReference)
       ELSE IF bib.exc # "" THEN SearchOutcome(bib.exc, NoReference)
       ELSE IF arxiv.exc # "" THEN SearchOutcome(arxiv.exc, NoReference)
       ELSE IF dblp.k = 0 THEN
           SearchOutcome("Reference",
               SearchReference(Some(google_result.author_concise),
                               Some(google_result.title), None, bib.bibtex,
                               bib.bibtex_condensed, None,
                               Some(google_result.pub_url),
                               Some(google_result.num_citations)))
       ELSE LET dblp_result == input.dblp[dblp.k]
            IN SearchOutcome("Reference",
                   SearchReference(Some(dblp_result.author), Some(dblp_result.title),
                                   Some(dblp_result.year), bib.bibtex,
                                   bib.bibtex_condensed, Some(dblp_result.venue),
                                   Some(IF arxiv.k # 0 THEN input.arxiv[arxiv.k].arxiv_id
                                        ELSE google_result.pub_url),
                                   Some(google_result.num_citations)))

\* the results of Google Scholar
GoogleResult(author_concise, title) ==
    [author_concise |-> author_concise, title |-> title, num_citations |-> <<"7">>,
     pub_url |-> <<"u">>]

GoogleT == GoogleResult(<<"A"," ","B",","," ","C"," ","D">>, <<"T">>)

GoogleOther == GoogleResult(<<"E"," ","F">>, <<"O">>)

GoogleNoAuthor == GoogleResult(<<>>, <<"T">>)

GoogleLists ==
    { <<>>, <<GoogleT>>, <<GoogleT, GoogleOther>>, <<GoogleOther, GoogleT>>,
      <<GoogleNoAuthor>> }

\* the results of DBLP
DblpResult(author, title) ==
    [author |-> author, title |-> title, venue |-> <<"V">>, year |-> <<"1">>,
     dblp_url |-> <<"d">>]

DblpT == DblpResult(<<"a"," ","b",",","c"," ","d">>, <<"t">>)

DblpOtherAuthor == DblpResult(<<"G"," ","H">>, <<"T">>)

DblpOtherTitle == DblpResult(<<"A"," ","B">>, <<"O">>)

DblpLists ==
    { <<>>, <<DblpT>>, <<DblpOtherAuthor>>, <<DblpOtherTitle>>,
      <<DblpOtherAuthor, DblpT>> }

\* the results of arXiv
ArxivResult(author, title) == [author |-> author, title |-> title, arxiv_id |-> <<"x">>]

ArxivLists == { <<>>, <<ArxivResult(<<"A"," ","B">>, <<"T">>)>> }

\* what the user types at the prompt: a number, or something int() rejects
Choices == { [valid |-> FALSE, n |-> 0] } \cup { [valid |-> TRUE, n |-> n] : n \in 0..3 }

SearchInputs ==
    [google : GoogleLists, ask_user : BOOLEAN, choice : Choices, dblp : DblpLists,
     arxiv : ArxivLists]

InitSearch ==
    /\ IndexIdle
    /\ MatcherIdle
    /\ PageIdle
    /\ EqIdle
    /\ RaceIdle
    /\ BibIdle
    /\ s_input \in SearchInputs
    /\ s_result = SearchOutcome("pending", NoReference)

\* s_result = search_reference(title, ask_user)
Search ==
    /\ s_result.ret = "pending"
    /\ s_result' = search_reference(s_input)
    /\ UNCHANGED <<s_input, indexVars, matcherVars, pageVars, eqVars, raceVars, bibVars>>

NextSearch == Search

SpecSearch == InitSearch /\ [][NextSearch]_vars

\* Google Scholar yields a selected result whose first author has a last
\* name, and no DBLP result has its title and that last name
FallbackCase ==
    LET sel == SelectGoogle(s_input.google, s_input.ask_user, s_input.choice)
        google_result == s_input.google[sel.k]
        last_name == Lower(faln(google_result.author_concise).name)
    IN /\ s_result.ret # "pending"
       /\ sel.ret = ""
       /\ faln(google_result.author_concise).exc = ""
       /\ \A i \in 1..Len(s_input.dblp) :
             \/ Lower(s_input.dblp[i].title) # Lower(google_result.title)
             \/ /\ faln(s_input.dblp[i].author).exc = ""
                /\ Lower(faln(s_input.dblp[i].author).name) # last_name

\* C30: search_reference falls back when DBLP has no match: it does not
\* raise, and it returns a Reference with the author, title, url and
\* num_citations of the Google Scholar result, and year and venue None
C30_FallbackToGoogle ==
    FallbackCase =>
        LET sel == SelectGoogle(s_input.google, s_input.ask_user, s_input.choice)
            google_result == s_input.google[sel.k]
        IN /\ s_result.ret = "Reference"
           /\ s_result.ref.author = Some(google_result.author_concise)
           /\ s_result.ref.title = Some(google_result.title)
           /\ s_result.ref.url = Some(google_result.pub_url)
           /\ s_result.ref.num_citations = Some(google_result.num_citations)
           /\ s_result.ref.year = None
           /\ s_result.ref.venue = None

====
